---- MODULE Spec2Model ----
(***************************************************************************)
(* Per-user conversation and memory runtime of Agent-Luotianyi-server.     *)
(*                                                                         *)
(* One user is modelled (all per-user collections are independent).  The   *)
(* state is the user's rows of the durable log (SQLite through             *)
(* SQLAlchemy), the key user_context:{user} of the shared Redis cache, and *)
(* the position and locals of every task working for that user: the chat   *)
(* request handlers, their background write tasks, the summarizer tasks    *)
(* and the login-time prefill task.  A facade call is split at every point *)
(* where it touches the durable log or the cache, because the calls run in *)
(* worker threads (asyncio.to_thread) and other requests interleave there. *)
(*                                                                         *)
(* Abstractions: a ConversationEntry is its identity (a number); the log   *)
(* is the sequence of committed entries in commit order (timestamps have   *)
(* second resolution and are taken in that order); a summary text is the   *)
(* set of entries the summarizer was given to produce it.  The last        *)
(* section models the facade call by call for one caller, with the         *)
(* timestamps of the conversation rows, the uuids of the knowledge rows    *)
(* and the four cache keys explicit.                                       *)
(***************************************************************************)
EXTENDS Integers, Sequences, FiniteSets, TLC

\* ------------------------------------------------------------ parameters

\* raw_conversation_context_limit: a configuration value (default 100),
\* scaled down.
RawContextLimit == 4

\* not_zip_conversation_count: a configuration value (default 20), scaled.
NotZipCount == 1

\* for _ in range(3): attempts of the optimistic-lock loop.
MaxAttempts == 3

\* Largest number of agent entries one turn generates.
MaxReply == 1

\* TTL expiries of user_context:{user} within one behaviour.
MaxExpire == 1

\* ----------------------------------------------------------------- tasks

Turns == {"t1", "t2"}

Writers == {"w1", "w2"}

Summarizers == {"s1", "s2"}

Logins == {"lg"}

Tasks == Turns \cup Writers \cup Summarizers \cup Logins

WriterOf(t) == IF t = "t1" THEN "w1" ELSE "w2"

TurnOf(w) == IF w = "w1" THEN "t1" ELSE "t2"

\* ----------------------------------------------------------------- values

\* redis.get returns None: the key is absent (never set, or its TTL elapsed).
NoCache == [present |-> FALSE, summary |-> {}, conversations |-> <<>>]

\* get_context_from_buffer returns []: no context could be read.
EmptyContext == [present |-> FALSE, summary |-> {}, conversations |-> <<>>]

NoRead == [all |-> 0, ctx |-> 0]

RECURSIVE SeqRange(_)
SeqRange(s) == IF s = <<>> THEN {} ELSE {Head(s)} \cup SeqRange(Tail(s))

\* convs[-n:] for n > 0, [] otherwise; also ORDER BY timestamp DESC LIMIT n, reversed.
LastN(s, n) ==
    IF n <= 0 THEN <<>>
    ELSE IF n >= Len(s) THEN s
    ELSE SubSeq(s, Len(s) - n + 1, Len(s))

\* The entries of earlier turns.
OldEntries(n) == [i \in 1..n |-> i]

UserEntry(t) == IF t = "t1" THEN 11 ELSE 21

AgentEntries(t, n) == [i \in 1..n |-> UserEntry(t) + i]

VARIABLES
    log,        \* conversations rows of the user, in commit order
    dbAll,      \* users.all_memory_count
    dbCtx,      \* users.context_memory_count
    dbSummary,  \* users.context_summary (the entries it stands for)
    cache,      \* Redis key user_context:{user}
    pc,         \* position of every task
    rd,         \* counters read from the user row by an append in progress
    got,        \* value a task read under WATCH
    dirty,      \* the watched key was written since the task's WATCH
    tries,      \* finished attempts of the optimistic-lock loop
    pf,         \* context a prefill has read from the log and not yet stored
    ctx,        \* context a task obtained from get_context_from_buffer
    reply,      \* new_conversation_list of a turn
    sent,       \* entries of the turn whose frames were yielded
    started,    \* the turns in the order their requests arrived
    pristine,   \* user_context was present at the start and only appends wrote it
    expiries,   \* TTL expiries so far
    stage,      \* streaming turn: position of shared_process_pipeline
    attempt,    \* streaming turn: failed attempts of the model call in progress
    exhausted,  \* streaming turn: a model call failed on all its attempts
    items,      \* streaming turn: new_conversation_list
    cur,        \* streaming turn: entries whose frames were all yielded
    off,        \* streaming turn: i of the chunk loop of the entry being sent
    frames,     \* streaming turn: the frames yielded so far
    wtask,      \* streaming turn: state of write_task
    persisted,  \* streaming turn: agent entries in the committed log
    crows,      \* facade: the user's rows of conversations, in insertion order
    ccount,     \* facade: users.context_memory_count
    krows,      \* facade: the user's rows of knowledge_buffers
    nickname,   \* facade: users.nickname
    clock,      \* facade: the wall clock, in seconds
    fcache,     \* facade: the user's four keys in Redis
    fcall,      \* facade: the last call that returned
    mstage,     \* memory writer: position of the background write
    vdocs,      \* memory writer: ids of the records in the vector index
    vlog,       \* memory writer: the writes made to the vector index
    candidates, \* memory writer: uuid_can_be_used
    staged,     \* memory writer: MemoryUpdateRecords added to the session
    committed,  \* memory writer: MemoryUpdateRecords in the durable log
    ncmd,       \* memory writer: commands of update_cmd executed
    lastcmd,    \* memory writer: the command executed last
    sstage,     \* retrieval: position of MemorySearcher.search
    plan,       \* retrieval: search_queries
    sidx,       \* retrieval: tool calls of the plan gone through
    used,       \* retrieval: used_uuid
    results,    \* retrieval: returned_results
    trace,      \* retrieval: what happened to each tool call
    kbuf,       \* retrieval: the list given to write_knowledge_buffers
    usedKey,    \* retrieval: the value of user_used_uuid:{user}
    pin,        \* a function of the program applied on its own: its input
    pout,       \* and its result
    rpc,        \* registration: position of every /auth/register request
    rarg,       \* registration: username and invite code of every request
    rres,       \* registration: what every request was answered
    loop,       \* registration: the request the event loop is running
    users,      \* registration: the committed rows of users
    codes,      \* registration: the committed rows of invite_codes
    lmax,       \* model client: self.max_retries
    lpc,        \* model client: position of generate_response
    lattempt,   \* model client: attempt of the for loop
    lerr,       \* model client: last_exception
    levents,    \* model client: requests and sleeps of the call in progress
    lres,       \* model client: what the call returned or raised
    lhist,      \* model client: the results of the calls that ended
    wt,         \* two users: the tables, in each of two worlds
    wk,         \* two users: the keys in Redis, in each of two worlds
    ures,       \* two users: what the last call of user u returned, per world
    wlast,      \* two users: the user of the last call
    wn          \* two users: calls and expiries so far

coreVars == <<log, dbAll, dbCtx, dbSummary, cache, pc, rd, got, dirty, tries, pf,
              ctx, reply, sent, started, pristine, expiries>>

streamVars == <<stage, attempt, exhausted, items, cur, off, frames, wtask, persisted>>

facadeVars == <<crows, ccount, krows, nickname, clock, fcache, fcall>>

writerVars == <<mstage, vdocs, vlog, candidates, staged, committed, ncmd, lastcmd>>

searchVars == <<sstage, plan, sidx, used, results, trace, kbuf, usedKey>>

pureVars == <<pin, pout>>

regVars == <<rpc, rarg, rres, loop, users, codes>>

llmVars == <<lmax, lpc, lattempt, lerr, levents, lres, lhist>>

isoVars == <<wt, wk, ures, wlast, wn>>

sideVars == <<streamVars, facadeVars, writerVars, searchVars, pureVars, regVars, llmVars, isoVars>>

\* What the actions of one part leave alone: the variables of the others.
notStream == <<coreVars, facadeVars, writerVars, searchVars, pureVars, regVars, llmVars, isoVars>>

notFacade == <<coreVars, streamVars, writerVars, searchVars, pureVars, regVars, llmVars, isoVars>>

notWriter == <<coreVars, streamVars, facadeVars, searchVars, pureVars, regVars, llmVars, isoVars>>

notSearch == <<coreVars, streamVars, facadeVars, writerVars, pureVars, regVars, llmVars, isoVars>>

notPure == <<coreVars, streamVars, facadeVars, writerVars, searchVars, regVars, llmVars, isoVars>>

notReg == <<coreVars, streamVars, facadeVars, writerVars, searchVars, pureVars, llmVars, isoVars>>

notLlm == <<streamVars, facadeVars, writerVars, searchVars, pureVars, regVars, isoVars>>

notIso == <<coreVars, streamVars, facadeVars, writerVars, searchVars, pureVars, regVars, llmVars>>

vars == <<coreVars, sideVars>>

dbVars == <<log, dbAll, dbCtx, dbSummary>>

casVars == <<got, dirty, tries>>

turnVars == <<reply, sent, started>>

\* --------------------------------------------------------- initial states

\* The context payload prefill_buffer builds from the user's rows.
ContextOfLog == [present |-> TRUE, summary |-> dbSummary, conversations |-> LastN(log, dbCtx)]

\* No streaming turn has begun.
StreamIdle ==
    /\ stage = "idle"
    /\ attempt = 0
    /\ exhausted = FALSE
    /\ items = <<>>
    /\ cur = 0
    /\ off = 0
    /\ frames = <<>>
    /\ wtask = "none"
    /\ persisted = <<>>

\* The keys prefill_buffer loads, in the order of its four steps.
Keys == <<"user_context", "user_knowledge", "user_nickname", "user_recent_memory_update">>

\* redis.get(key) returns None.
Absent == [present |-> FALSE]

\* nickname = Column(String, default=...): the one-character default name
\* (the pronoun "you"), written in ASCII here.
DefaultNickname == "ni"

\* A user just registered: no rows, the default nickname, nothing cached,
\* no facade call made yet.
FacadeIdle ==
    /\ crows = <<>>
    /\ ccount = 0
    /\ krows = {}
    /\ nickname = DefaultNickname
    /\ clock = 0
    /\ fcache = [k \in 1..Len(Keys) |-> Absent]
    /\ fcall = [op |-> "none", arg |-> <<>>, ret |-> <<>>, ok |-> TRUE]

\* No command of the Memory Writer: nothing executed yet.
NoCmd == [kind |-> "none", prefix |-> <<>>, target |-> <<>>]

\* No background write has begun to process its commands.
WriterIdle ==
    /\ mstage = "idle"
    /\ vdocs = {}
    /\ vlog = <<>>
    /\ candidates = <<>>
    /\ staged = <<>>
    /\ committed = <<>>
    /\ ncmd = 0
    /\ lastcmd = NoCmd

\* user_used_uuid:{user} was never written.
NoKey == [present |-> FALSE, val |-> {}]

\* write_knowledge_buffers was not called.
NoList == [present |-> FALSE, val |-> <<>>]

\* No plan was asked of the model yet.
NoPlan == [calls |-> <<>>, output |-> "none"]

\* No retrieval has begun.
SearchIdle ==
    /\ sstage = "idle"
    /\ plan = NoPlan
    /\ sidx = 0
    /\ used = {}
    /\ results = <<>>
    /\ trace = <<>>
    /\ kbuf = NoList
    /\ usedKey = NoKey

\* No function has been applied on its own.
PureIdle ==
    /\ pin = <<>>
    /\ pout = <<>>

\* Requests to /auth/register one behaviour holds at most.
MaxCalls == 3

Calls == 1..MaxCalls

\* The invite codes add_invite_code.py has put into invite_codes.
InviteCodes == {"k1", "k2"}

\* users.username values the requests name.
Usernames == {"a", "b"}

\* invite_codes.user_id of a code nobody has used: NULL.
NoUser == 0

NoArg == [username |-> "", invite_code |-> ""]

\* No user is registered, every invite code is unused, no request arrived.
RegIdle ==
    /\ rpc = [c \in Calls |-> "idle"]
    /\ rarg = [c \in Calls |-> NoArg]
    /\ rres = [c \in Calls |-> "none"]
    /\ loop = 0
    /\ users = {}
    /\ codes = [k \in InviteCodes |-> [is_used |-> FALSE, user_id |-> NoUser]]

\* max_retries of the language-model client (default 3).
MaxRetries == 3

\* Calls of generate_response one behaviour holds at most.
MaxLlmCalls == 2

\* Largest max_retries the configuration gives.
MaxConfig == 4

\* last_exception = None
NoException == <<>>

\* The client is not constructed yet; no call was made.
LlmIdle ==
    /\ lmax = MaxRetries
    /\ lpc = "new"
    /\ lattempt = 0
    /\ lerr = NoException
    /\ levents = <<>>
    /\ lres = <<>>
    /\ lhist = <<>>

\* The users of the store: u, and another user v.
UserIds == {"u", "v"}

\* The prefixes of the five keys of a user.
Kinds == {"user_context", "user_knowledge", "user_nickname",
          "user_recent_memory_update", "user_used_uuid"}

\* f"{kind}:{user_id}"
KeyOf(kind, user_id) == <<kind, user_id>>

\* Two worlds that differ in what user v has.
Worlds == 1..2

\* A user just registered: the row of users.
NewUser == [context_memory_count |-> 0, context_summary |-> "", nickname |-> DefaultNickname]

\* The tables when nobody has written anything.
EmptyTables ==
    [users |-> [w \in UserIds |-> NewUser],
     conversations |-> <<>>, knowledge_buffers |-> <<>>, memory_updates |-> <<>>,
     documents |-> <<>>]

\* The tables when v has a summary, a nickname and a row in every table.
TablesWithV ==
    [users |-> [w \in UserIds |->
                  IF w = "v"
                  THEN [context_memory_count |-> 1, context_summary |-> "sv", nickname |-> "V"]
                  ELSE NewUser],
     conversations |-> <<[user_id |-> "v", content |-> "cv"]>>,
     knowledge_buffers |-> <<[user_id |-> "v", content |-> "kv"]>>,
     memory_updates |-> <<[user_id |-> "v", content |-> "mv"]>>,
     documents |-> <<[user_id |-> "v", content |-> "dv"]>>]

\* The keys of v when v is logged in and has searched, the keys of u absent.
KeysWithV ==
    [key \in Kinds \X UserIds |->
        IF key[2] # "v" THEN Absent
        ELSE [present |-> TRUE,
              val |-> CASE key[1] = "user_context" ->
                             [summary |-> "sv", conversations |-> <<"cv">>]
                        [] key[1] = "user_knowledge" -> <<"kv">>
                        [] key[1] = "user_nickname" -> "V"
                        [] key[1] = "user_recent_memory_update" -> <<"mv">>
                        [] key[1] = "user_used_uuid" -> <<"dv">>]]

\* In world 1 both users are new; in world 2 user v has data already.
IsoIdle ==
    /\ wt = [c \in Worlds |-> IF c = 1 THEN EmptyTables ELSE TablesWithV]
    /\ wk = [c \in Worlds |-> IF c = 1 THEN [key \in Kinds \X UserIds |-> Absent] ELSE KeysWithV]
    /\ ures = [c \in Worlds |-> <<>>]
    /\ wlast = ""
    /\ wn = 0

\* The user has n entries from earlier turns, none summarized yet, and no
\* task is running; the key is cached (a recent login) or not.
InitWith(n) ==
    /\ log = OldEntries(n)
    /\ dbAll = n
    /\ dbCtx = n
    /\ dbSummary = {}
    /\ cache \in {NoCache, [present |-> TRUE, summary |-> {}, conversations |-> OldEntries(n)]}
    /\ rd = [p \in Tasks |-> NoRead]
    /\ got = [p \in Tasks |-> NoCache]
    /\ dirty = [p \in Tasks |-> FALSE]
    /\ tries = [p \in Tasks |-> 0]
    /\ pf = [p \in Tasks |-> NoCache]
    /\ ctx = [p \in Tasks |-> EmptyContext]
    /\ reply = [t \in Turns |-> <<>>]
    /\ sent = [t \in Turns |-> 0]
    /\ started = <<>>
    /\ pristine = cache.present
    /\ expiries = 0
    /\ pc = [p \in Tasks |-> "idle"]
    /\ StreamIdle
    /\ FacadeIdle
    /\ WriterIdle
    /\ SearchIdle
    /\ PureIdle
    /\ RegIdle
    /\ LlmIdle
    /\ IsoIdle

\* A new user: the log is far below the limit.
Init == InitWith(0)

\* A user whose working window has reached the limit.
InitStore == InitWith(RawContextLimit)

\* ------------------------------------------------------------ Redis WATCH

\* The tasks holding a WATCH on user_context:{user}: between the GET of an
\* optimistic-lock attempt and its EXEC.
Watching(p) == pc[p] \in {"add_exec", "ucs_exec"}

\* A write to the key by task w invalidates every other task's WATCH.
Touched(w) == [p \in Tasks |-> IF p # w /\ Watching(p) THEN TRUE ELSE dirty[p]]

\* ------------------------------------------------------ add_conversations

Appenders == Turns \cup Writers

\* conversation_data of the call in progress.
NewEntries(p) == IF p \in Turns THEN <<UserEntry(p)>> ELSE reply[TurnOf(p)]

\* Where the caller continues when add_conversations returns.
AfterAdd(p) == IF p \in Turns THEN "check" ELSE "w_mem"

\* user = db.query(User)...first(): the counters are read into the session.
AddRead(p) ==
    /\ p \in Turns
    /\ pc[p] = "add_read"
    /\ rd' = [rd EXCEPT ![p] = [all |-> dbAll, ctx |-> dbCtx]]
    /\ pc' = [pc EXCEPT ![p] = "add_commit"]
    /\ UNCHANGED <<dbVars, cache, casVars, pf, ctx, turnVars, pristine, expiries>>
    /\ UNCHANGED sideVars

\* db.commit(): the rows are inserted and the counters written as read + len.
\* A failing commit is caught: rollback, return 0, no cache update.
AddCommit(p) ==
    /\ p \in Turns
    /\ pc[p] = "add_commit"
    /\ \/ /\ log' = log \o NewEntries(p)
          /\ dbAll' = rd[p].all + Len(NewEntries(p))
          /\ dbCtx' = rd[p].ctx + Len(NewEntries(p))
          /\ pc' = [pc EXCEPT ![p] = "add_get"]
       \/ /\ pc' = [pc EXCEPT ![p] = AfterAdd(p)]
          /\ UNCHANGED <<log, dbAll, dbCtx>>
    /\ rd' = [rd EXCEPT ![p] = NoRead]
    /\ tries' = [tries EXCEPT ![p] = 0]
    /\ UNCHANGED <<dbSummary, cache, got, dirty, pf, ctx, turnVars, pristine, expiries>>
    /\ UNCHANGED sideVars

\* pipe.watch(key); raw_data = pipe.get(key); an absent key: unwatch, break.
AddGet(p) ==
    /\ p \in Appenders
    /\ pc[p] = "add_get"
    /\ IF cache.present
       THEN /\ got' = [got EXCEPT ![p] = cache]
            /\ dirty' = [dirty EXCEPT ![p] = FALSE]
            /\ pc' = [pc EXCEPT ![p] = "add_exec"]
            /\ UNCHANGED tries
       ELSE /\ pc' = [pc EXCEPT ![p] = AfterAdd(p)]
            /\ tries' = [tries EXCEPT ![p] = 0]
            /\ UNCHANGED <<got, dirty>>
    /\ UNCHANGED <<dbVars, cache, rd, pf, ctx, turnVars, pristine, expiries>>
    /\ UNCHANGED sideVars

\* data["conversations"].extend(new_convs)
Extended(c, new) == [c EXCEPT !.conversations = c.conversations \o new]

\* One attempt more than the loop has.
RetryOnceMore(failed) == failed < MaxAttempts

\* for _ in range(3): after a WatchError the loop continues while attempts
\* are left; failed counts the attempts that ended in WatchError before.
RetryAgain(failed) == failed + 1 < MaxAttempts

\* pipe.multi(); pipe.setex(key, 3600, new_val); pipe.execute(): the value is
\* stored unless the key was written since WATCH; then WatchError: continue,
\* and after the third attempt the update is dropped.
AddExec(p) ==
    /\ p \in Appenders
    /\ pc[p] = "add_exec"
    /\ IF dirty[p]
       THEN /\ IF RetryAgain(tries[p])
               THEN /\ tries' = [tries EXCEPT ![p] = tries[p] + 1]
                    /\ pc' = [pc EXCEPT ![p] = "add_get"]
               ELSE /\ tries' = [tries EXCEPT ![p] = 0]
                    /\ pc' = [pc EXCEPT ![p] = AfterAdd(p)]
            /\ dirty' = [dirty EXCEPT ![p] = FALSE]
            /\ UNCHANGED cache
       ELSE /\ cache' = Extended(got[p], NewEntries(p))
            /\ dirty' = Touched(p)
            /\ tries' = [tries EXCEPT ![p] = 0]
            /\ pc' = [pc EXCEPT ![p] = AfterAdd(p)]
    /\ got' = [got EXCEPT ![p] = NoCache]
    /\ UNCHANGED <<dbVars, rd, pf, ctx, turnVars, pristine, expiries>>
    /\ UNCHANGED sideVars

\* ------------------------------------------- check_and_update_context

FreeSummarizers == {s \in Summarizers : pc[s] = "idle"}

\* asyncio.create_task(self._update_context(db, redis, user_id)) on slot s.
WithSummarizer(f, s) == [f EXCEPT ![s] = "ctx_get"]

\* The trigger one entry early: at the limit.
TriggerAtLimit(count) == count >= RawContextLimit

\* current_count = get_context_count(db, user_id), a fresh read of the row.
TriggerNeeded(count) == count > RawContextLimit

\* add_conversation: after add_conversations, whatever it returned.
CheckAndUpdateContext(t) ==
    /\ t \in Turns
    /\ pc[t] = "check"
    /\ IF TriggerNeeded(dbCtx)
       THEN \E s \in FreeSummarizers :
                pc' = WithSummarizer([pc EXCEPT ![t] = "ctx_get"], s)
       ELSE pc' = [pc EXCEPT ![t] = "ctx_get"]
    /\ UNCHANGED <<dbVars, cache, rd, casVars, pf, ctx, turnVars, pristine, expiries>>
    /\ UNCHANGED sideVars

\* ------------------------------------ get_context_from_buffer, prefill_buffer

Readers == Turns \cup Summarizers

\* Where the caller continues with the context it got.
AfterContext(p) == IF p \in Turns THEN "llm" ELSE "s_llm"

\* raw_data = redis.get(redis_key): a hit is returned, a miss prefills.
CtxGet(p) ==
    /\ p \in Readers
    /\ pc[p] = "ctx_get"
    /\ IF cache.present
       THEN /\ ctx' = [ctx EXCEPT ![p] = cache]
            /\ pc' = [pc EXCEPT ![p] = AfterContext(p)]
       ELSE /\ pc' = [pc EXCEPT ![p] = "pf_read"]
            /\ UNCHANGED ctx
    /\ UNCHANGED <<dbVars, cache, rd, casVars, pf, turnVars, pristine, expiries>>
    /\ UNCHANGED sideVars

\* prefill_buffer, step 1: summary, context_memory_count and the newest
\* context_memory_count conversations are read from the log.
PfRead(p) ==
    /\ p \in Readers \cup Logins
    /\ pc[p] = "pf_read"
    /\ pf' = [pf EXCEPT ![p] = ContextOfLog]
    /\ pc' = [pc EXCEPT ![p] = "pf_set"]
    /\ UNCHANGED <<dbVars, cache, rd, casVars, ctx, turnVars, pristine, expiries>>
    /\ UNCHANGED sideVars

\* prefill_buffer: redis.setex(redis_key, 3600, ...), with no WATCH.
PfSet(p) ==
    /\ p \in Readers \cup Logins
    /\ pc[p] = "pf_set"
    /\ cache' = pf[p]
    /\ dirty' = Touched(p)
    /\ pf' = [pf EXCEPT ![p] = NoCache]
    /\ pristine' = FALSE
    /\ pc' = [pc EXCEPT ![p] = IF p \in Logins THEN "done" ELSE "ctx_reget"]
    /\ UNCHANGED <<dbVars, rd, got, tries, ctx, turnVars, expiries>>
    /\ UNCHANGED sideVars

\* After a successful prefill the key is read again; [] when it is gone.
CtxReget(p) ==
    /\ p \in Readers
    /\ pc[p] = "ctx_reget"
    /\ ctx' = [ctx EXCEPT ![p] = IF cache.present THEN cache ELSE EmptyContext]
    /\ pc' = [pc EXCEPT ![p] =
                IF p \in Summarizers /\ ~cache.present THEN "idle" ELSE AfterContext(p)]
    /\ UNCHANGED <<dbVars, cache, rd, casVars, pf, turnVars, pristine, expiries>>
    /\ UNCHANGED sideVars

\* login / auto_login: background_tasks.add_task(prefill_buffer, db, redis, uuid).
LoginPrefill(p) ==
    /\ p \in Logins
    /\ pc[p] = "idle"
    /\ pc' = [pc EXCEPT ![p] = "pf_read"]
    /\ UNCHANGED <<dbVars, cache, rd, casVars, pf, ctx, turnVars, pristine, expiries>>
    /\ UNCHANGED sideVars

\* The TTL of 3600 s elapses: the key is gone.  Whether a pending WATCH sees
\* the expiry depends on the server version.
Expire ==
    /\ cache.present
    /\ expiries < MaxExpire
    /\ cache' = NoCache
    /\ expiries' = expiries + 1
    /\ pristine' = FALSE
    /\ \E seen \in BOOLEAN : dirty' = IF seen THEN Touched("ttl") ELSE dirty
    /\ UNCHANGED <<dbVars, pc, rd, got, tries, pf, ctx, turnVars>>
    /\ UNCHANGED sideVars

\* ------------------------------- _update_context, update_context_summary

\* The new summary stands for the current summary and for every conversation
\* of the context the task read: recent_conversation joins all of them.
NewSummary(s) == ctx[s].summary \cup SeqRange(ctx[s].conversations)

\* new_summary = await self.llm.generate_response(...); an exception is
\* logged and ends the task.
SumLLM(s) ==
    /\ s \in Summarizers
    /\ pc[s] = "s_llm"
    /\ \/ /\ pc' = [pc EXCEPT ![s] = "ucs_commit"]
          /\ UNCHANGED ctx
       \/ /\ pc' = [pc EXCEPT ![s] = "idle"]
          /\ ctx' = [ctx EXCEPT ![s] = EmptyContext]
    /\ UNCHANGED <<dbVars, cache, rd, casVars, pf, turnVars, pristine, expiries>>
    /\ UNCHANGED sideVars

\* update_context_summary: user.context_summary = new_summary;
\* user.context_memory_count = new_context_memory_count; db.commit().
\* A failing commit is caught: rollback, the cache is left alone.
UcsCommit(s) ==
    /\ s \in Summarizers
    /\ pc[s] = "ucs_commit"
    /\ \/ /\ dbSummary' = NewSummary(s)
          /\ dbCtx' = NotZipCount
          /\ pc' = [pc EXCEPT ![s] = "ucs_get"]
          /\ UNCHANGED ctx
       \/ /\ pc' = [pc EXCEPT ![s] = "idle"]
          /\ ctx' = [ctx EXCEPT ![s] = EmptyContext]
          /\ UNCHANGED <<dbSummary, dbCtx>>
    /\ tries' = [tries EXCEPT ![s] = 0]
    /\ UNCHANGED <<log, dbAll, cache, rd, got, dirty, pf, turnVars, pristine, expiries>>
    /\ UNCHANGED sideVars

\* pipe.watch(redis_key); raw = pipe.get(redis_key); absent: unwatch, break.
UcsGet(s) ==
    /\ s \in Summarizers
    /\ pc[s] = "ucs_get"
    /\ IF cache.present
       THEN /\ got' = [got EXCEPT ![s] = cache]
            /\ dirty' = [dirty EXCEPT ![s] = FALSE]
            /\ pc' = [pc EXCEPT ![s] = "ucs_exec"]
            /\ UNCHANGED <<tries, ctx>>
       ELSE /\ pc' = [pc EXCEPT ![s] = "idle"]
            /\ tries' = [tries EXCEPT ![s] = 0]
            /\ ctx' = [ctx EXCEPT ![s] = EmptyContext]
            /\ UNCHANGED <<got, dirty>>
    /\ UNCHANGED <<dbVars, cache, rd, pf, turnVars, pristine, expiries>>
    /\ UNCHANGED sideVars

\* data["summary"] = new_summary; data["conversations"] = convs[-count:].
Trimmed(c, summary, count) ==
    [c EXCEPT !.summary = summary, !.conversations = LastN(c.conversations, count)]

\* pipe.multi(); pipe.setex(...); pipe.execute(), or WatchError: continue.
UcsExec(s) ==
    /\ s \in Summarizers
    /\ pc[s] = "ucs_exec"
    /\ IF dirty[s]
       THEN /\ IF RetryAgain(tries[s])
               THEN /\ tries' = [tries EXCEPT ![s] = tries[s] + 1]
                    /\ pc' = [pc EXCEPT ![s] = "ucs_get"]
                    /\ UNCHANGED ctx
               ELSE /\ tries' = [tries EXCEPT ![s] = 0]
                    /\ pc' = [pc EXCEPT ![s] = "idle"]
                    /\ ctx' = [ctx EXCEPT ![s] = EmptyContext]
            /\ dirty' = [dirty EXCEPT ![s] = FALSE]
            /\ UNCHANGED <<cache, pristine>>
       ELSE /\ cache' = Trimmed(got[s], NewSummary(s), NotZipCount)
            /\ dirty' = Touched(s)
            /\ pristine' = FALSE
            /\ tries' = [tries EXCEPT ![s] = 0]
            /\ pc' = [pc EXCEPT ![s] = "idle"]
            /\ ctx' = [ctx EXCEPT ![s] = EmptyContext]
    /\ got' = [got EXCEPT ![s] = NoCache]
    /\ UNCHANGED <<dbVars, rd, pf, turnVars, expiries>>
    /\ UNCHANGED sideVars

\* ------------------------------------------------------ the chat request

\* chat -> handle_user_text_input: the request's user entry is appended first.
ChatStart(t) ==
    /\ t \in Turns
    /\ pc[t] = "idle"
    /\ pc' = [pc EXCEPT ![t] = "add_read"]
    /\ started' = Append(started, t)
    /\ UNCHANGED <<dbVars, cache, rd, casVars, pf, ctx, reply, sent, pristine, expiries>>
    /\ UNCHANGED sideVars

\* shared_process_pipeline, steps 2 to 5b: retrieval, planner and main chat
\* (an exception of any of them ends the request), then the agent entries are
\* built and write_task = asyncio.create_task(unified_background_write()).
Generate(t) ==
    /\ t \in Turns
    /\ pc[t] = "llm"
    /\ \/ \E n \in 1..MaxReply :
            /\ reply' = [reply EXCEPT ![t] = AgentEntries(t, n)]
            /\ pc' = [pc EXCEPT ![t] = "stream", ![WriterOf(t)] = "w_read"]
       \/ /\ pc' = [pc EXCEPT ![t] = "failed"]
          /\ UNCHANGED reply
    /\ UNCHANGED <<dbVars, cache, rd, casVars, pf, ctx, sent, started, pristine, expiries>>
    /\ UNCHANGED sideVars

\* Step 5c: one entry is synthesized (or its song fetched) and its frames are
\* yielded; an exception of the synthesizer leaves the generator at once.
StreamEntry(t) ==
    /\ t \in Turns
    /\ pc[t] = "stream"
    /\ \/ /\ sent' = [sent EXCEPT ![t] = sent[t] + 1]
          /\ pc' = [pc EXCEPT ![t] = IF sent[t] + 1 = Len(reply[t]) THEN "await" ELSE "stream"]
       \/ /\ pc' = [pc EXCEPT ![t] = "aborted"]
          /\ UNCHANGED sent
    /\ UNCHANGED <<dbVars, cache, rd, casVars, pf, ctx, reply, started, pristine, expiries>>
    /\ UNCHANGED sideVars

\* The wait of step 6 left out: the generator ends without the write task.
WriteTaskNotAwaited(w) == TRUE

\* The write task has run to its end: committed, or rolled back.
WriteTaskDone(w) == pc[w] \in {"committed", "rolledback"}

\* Step 6: await write_task; then the generator, and the stream, end.
AwaitWrite(t) ==
    /\ t \in Turns
    /\ pc[t] = "await"
    /\ WriteTaskDone(WriterOf(t))
    /\ pc' = [pc EXCEPT ![t] = "done"]
    /\ UNCHANGED <<dbVars, cache, rd, casVars, pf, ctx, turnVars, pristine, expiries>>
    /\ UNCHANGED sideVars

\* ------------------------------------------------ unified_background_write

\* add_conversation_list_to_db(async_db, ..., commit=False): the rows and the
\* counters are staged in the task's own session; the cache update follows
\* (AddGet, AddExec).
WriteStage(w) ==
    /\ w \in Writers
    /\ pc[w] = "w_read"
    /\ rd' = [rd EXCEPT ![w] = [all |-> dbAll, ctx |-> dbCtx]]
    /\ tries' = [tries EXCEPT ![w] = 0]
    /\ pc' = [pc EXCEPT ![w] = "add_get"]
    /\ UNCHANGED <<dbVars, cache, got, dirty, pf, ctx, turnVars, pristine, expiries>>
    /\ UNCHANGED sideVars

\* post_process_interaction(..., commit=False): an exception of the Memory
\* Writer reaches the except clause: async_db.rollback().
WriteMemory(w) ==
    /\ w \in Writers
    /\ pc[w] = "w_mem"
    /\ \/ /\ pc' = [pc EXCEPT ![w] = "w_check"]
          /\ UNCHANGED rd
       \/ /\ pc' = [pc EXCEPT ![w] = "rolledback"]
          /\ rd' = [rd EXCEPT ![w] = NoRead]
    /\ UNCHANGED <<dbVars, cache, casVars, pf, ctx, turnVars, pristine, expiries>>
    /\ UNCHANGED sideVars

\* The summarization trigger of the batched write, on the staged counter.
WriteCheck(w) ==
    /\ w \in Writers
    /\ pc[w] = "w_check"
    /\ IF TriggerNeeded(rd[w].ctx + Len(NewEntries(w)))
       THEN \E s \in FreeSummarizers :
                pc' = WithSummarizer([pc EXCEPT ![w] = "w_commit"], s)
       ELSE pc' = [pc EXCEPT ![w] = "w_commit"]
    /\ UNCHANGED <<dbVars, cache, rd, casVars, pf, ctx, turnVars, pristine, expiries>>
    /\ UNCHANGED sideVars

\* async_db.commit(): the staged rows and counters are written; an exception
\* of the commit: async_db.rollback().
WriteCommit(w) ==
    /\ w \in Writers
    /\ pc[w] = "w_commit"
    /\ \/ /\ log' = log \o NewEntries(w)
          /\ dbAll' = rd[w].all + Len(NewEntries(w))
          /\ dbCtx' = rd[w].ctx + Len(NewEntries(w))
          /\ pc' = [pc EXCEPT ![w] = "committed"]
       \/ /\ pc' = [pc EXCEPT ![w] = "rolledback"]
          /\ UNCHANGED <<log, dbAll, dbCtx>>
    /\ rd' = [rd EXCEPT ![w] = NoRead]
    /\ UNCHANGED <<dbSummary, cache, casVars, pf, ctx, turnVars, pristine, expiries>>
    /\ UNCHANGED sideVars

\* --------------------------------------------------------- specifications

\* The facade and the conversation manager for a user at the limit: the
\* appends of two user turns (add_conversation), the summarizations they
\* trigger, a login-time prefill and the expiry of the key.
NextStore ==
    \/ \E p \in Turns : ChatStart(p)
    \/ \E p \in Turns : AddRead(p)
    \/ \E p \in Turns : AddCommit(p)
    \/ \E p \in Turns : AddGet(p)
    \/ \E p \in Turns : AddExec(p)
    \/ \E p \in Turns : CheckAndUpdateContext(p)
    \/ \E p \in Summarizers : CtxGet(p)
    \/ \E p \in Summarizers \cup Logins : PfRead(p)
    \/ \E p \in Summarizers \cup Logins : PfSet(p)
    \/ \E p \in Summarizers : CtxReget(p)
    \/ \E p \in Logins : LoginPrefill(p)
    \/ \E s \in Summarizers : SumLLM(s)
    \/ \E s \in Summarizers : UcsCommit(s)
    \/ \E s \in Summarizers : UcsGet(s)
    \/ \E s \in Summarizers : UcsExec(s)
    \/ Expire

SpecStore == InitStore /\ [][NextStore]_vars

\* The client sends a chat request when add_conversation of the user's
\* earlier request has returned: the appends of the turns do not overlap.
SequentialStart(t) ==
    /\ \A u \in Turns : pc[u] \in {"idle", "ctx_get"}
    /\ ChatStart(t)

\* As NextStore, for a user whose requests come one after the other.
NextSeq ==
    \/ \E p \in Turns : SequentialStart(p)
    \/ \E p \in Turns : AddRead(p)
    \/ \E p \in Turns : AddCommit(p)
    \/ \E p \in Turns : AddGet(p)
    \/ \E p \in Turns : AddExec(p)
    \/ \E p \in Turns : CheckAndUpdateContext(p)
    \/ \E p \in Summarizers : CtxGet(p)
    \/ \E p \in Summarizers \cup Logins : PfRead(p)
    \/ \E p \in Summarizers \cup Logins : PfSet(p)
    \/ \E p \in Summarizers : CtxReget(p)
    \/ \E p \in Logins : LoginPrefill(p)
    \/ \E s \in Summarizers : SumLLM(s)
    \/ \E s \in Summarizers : UcsCommit(s)
    \/ \E s \in Summarizers : UcsGet(s)
    \/ \E s \in Summarizers : UcsExec(s)
    \/ Expire

SpecSeq == InitStore /\ [][NextSeq]_vars

\* Two whole turns of a new user: the requests, their streams and their
\* background writes.  The log stays below the limit: no summarization.
Next ==
    \/ \E p \in Turns : ChatStart(p)
    \/ \E p \in Turns : AddRead(p)
    \/ \E p \in Turns : AddCommit(p)
    \/ \E p \in Appenders : AddGet(p)
    \/ \E p \in Appenders : AddExec(p)
    \/ \E p \in Turns : CheckAndUpdateContext(p)
    \/ \E p \in Turns : CtxGet(p)
    \/ \E p \in Turns : PfRead(p)
    \/ \E p \in Turns : PfSet(p)
    \/ \E p \in Turns : CtxReget(p)
    \/ \E p \in Turns : Generate(p)
    \/ \E p \in Turns : StreamEntry(p)
    \/ \E p \in Turns : AwaitWrite(p)
    \/ \E w \in Writers : WriteStage(w)
    \/ \E w \in Writers : WriteMemory(w)
    \/ \E w \in Writers : WriteCheck(w)
    \/ \E w \in Writers : WriteCommit(w)

Spec == Init /\ [][Next]_vars

\* ------------------------------------------------------------- properties

Cached == SeqRange(cache.conversations)
Logged == SeqRange(log)

\* p is inside an append: between the read of the counters and the return
\* of add_conversations, or with rows staged and not yet committed.
Appending(p) ==
    pc[p] \in {"add_read", "add_commit", "add_get", "add_exec",
               "w_read", "w_mem", "w_check", "w_commit"}
NoAppendInProgress == \A p \in Appenders : ~Appending(p)

\* The entries of the appends that have not returned yet.
PendingEntries == UNION {SeqRange(NewEntries(p)) : p \in {q \in Appenders : Appending(q)}}

\* The call of add_conversation of turn t has returned.
AppendReturned(t) == pc[t] \notin {"idle", "add_read", "add_commit", "add_get", "add_exec"}

InFlight == {s \in Summarizers : pc[s] # "idle"}

\* The position of entry e in the sequence s.
Pos(s, e) == CHOOSE i \in 1..Len(s) : s[i] = e

\* C1: the cached list never has a gap: of three entries in log order, the
\* middle one, appended by a call that has returned, is cached when the
\* outer two are, whatever the interleaving of add_conversations,
\* prefill_buffer and update_context_summary.
C1_NoGapInCachedContext ==
    cache.present =>
        \A i \in 1..Len(log) : \A j \in 1..Len(log) : \A k \in 1..Len(log) :
            (/\ i < j /\ j < k
             /\ log[i] \in Cached /\ log[k] \in Cached
             /\ log[j] \notin PendingEntries)
                => log[j] \in Cached

\* C2: when two appends of the same user both committed and both returned,
\* and nothing else wrote the key, the cached list holds both entries in
\* the order of the log.
C2_ConcurrentAppendsKeepLogOrder ==
    (/\ pristine
     /\ \A t \in Turns : AppendReturned(t) /\ UserEntry(t) \in Logged)
        => /\ \A t \in Turns : UserEntry(t) \in Cached
           /\ \A a \in Turns : \A b \in Turns :
                Pos(log, UserEntry(a)) < Pos(log, UserEntry(b))
                    => Pos(cache.conversations, UserEntry(a))
                         < Pos(cache.conversations, UserEntry(b))

\* Turn a arrived before turn b.
Before(a, b) ==
    \E i \in 1..Len(started) : \E j \in 1..Len(started) :
        i < j /\ started[i] = a /\ started[j] = b

\* Turn t is past get_context of shared_process_pipeline.
HasReadContext(t) == pc[t] \in {"llm", "stream", "await", "done", "aborted", "failed"}

\* The write task of turn t committed or rolled back, or the turn ended
\* before creating one.
WriteSettled(t) == pc[WriterOf(t)] \in {"committed", "rolledback"} \/ pc[t] = "failed"

\* C3: of two turns of the user, the later one reads the context only after
\* the write task of the earlier one has committed or rolled back.
C3_LaterTurnReadsAfterEarlierWrite ==
    \A a \in Turns : \A b \in Turns :
        (Before(a, b) /\ HasReadContext(b)) => WriteSettled(a)

\* C4: at most one _update_context task of the user is in flight.
C4_OneSummarizerInFlight == Cardinality(InFlight) <= 1

\* C5: a step in which update_context_summary returns normally leaves
\* context_memory_count at not_zip_conversation_count and, when the key is
\* there, the cached list equal to that many newest entries of the log.
C5_SummarizationLeavesNewestEntries ==
    [][\A s \in Summarizers :
          (pc[s] \in {"ucs_get", "ucs_exec"} /\ pc'[s] = "idle")
            => /\ dbCtx' = NotZipCount
               /\ cache'.present => cache'.conversations = LastN(log', NotZipCount)]_vars

\* C6: with no append in progress, all_memory_count is the number of rows
\* of the user's log.
C6_TotalCountIsRowCount == NoAppendInProgress => dbAll = Len(log)

\* C7: in a step that starts a turn, context_memory_count is at most
\* raw_conversation_context_limit.
C7_WindowWithinLimitAtTurnStart ==
    [][(\E t \in Turns : pc[t] = "idle" /\ pc'[t] = "add_read")
          => dbCtx <= RawContextLimit]_vars

\* The log position of the youngest entry the current summary stands for.
YoungestSummarized ==
    LET ps == {i \in 1..Len(log) : log[i] \in dbSummary}
    IN  IF ps = {} THEN 0 ELSE CHOOSE i \in ps : \A j \in ps : j <= i

\* C8: with no append and no summarization in progress,
\* context_memory_count is the number of log entries newer than the
\* youngest entry the current summary was made from.
C8_WindowIsTheUnsummarizedTail ==
    (NoAppendInProgress /\ InFlight = {}) => dbCtx = Len(log) - YoungestSummarized

NextContext == IF cache.present THEN cache ELSE ContextOfLog

\* C10: after the rollback of a write task neither the log nor the context
\* the next turn reads holds an agent entry of that turn.
C10_RolledBackWriteLeavesNoReply ==
    \A w \in Writers :
        pc[w] = "rolledback"
            => /\ SeqRange(reply[TurnOf(w)]) \cap Logged = {}
               /\ SeqRange(reply[TurnOf(w)]) \cap SeqRange(NextContext.conversations) = {}

\* ------------------------------------- one turn, frame by frame (5c)

\* Largest number of entries in new_conversation_list.
MaxItems == 2

\* Largest length of a song segment's base-64 audio string.
MaxAudio == 5

\* chunk_size = 640 * 1024, scaled down.
ChunkSize == 2

\* The base-64 audio string of a song segment of length n, by position.
AudioOf(n) == [k \in 1..n |-> k]

\* An entry of new_conversation_list: conv.type, and for a sing entry the
\* length of the audio get_song_segment returns for it.
ItemValues ==
    {[kind |-> "text", audio |-> 0]} \cup {[kind |-> "sing", audio |-> n] : n \in 0..MaxAudio}

ItemLists == UNION {[1..n -> ItemValues] : n \in 0..MaxItems}

\* ChatResponse(text, audio, expression, is_final_package) of entry e.
\* expression: "singing" stands for the label of a song, "none" for None.
Frame(e, text, expression, audio, final) ==
    [entry |-> e, text |-> text, expression |-> expression, audio |-> audio,
     is_final_package |-> final]

Min(a, b) == IF a <= b THEN a ELSE b

\* A chunk that stops one character early.
ChunkShort(audio, i) == SubSeq(audio, i + 1, Min(i + ChunkSize - 1, Len(audio)))

\* sing_audio_base64_str[i : i + chunk_size]
Chunk(audio, i) == SubSeq(audio, i + 1, Min(i + ChunkSize, Len(audio)))

\* The last chunk is missed when the length is a multiple of the chunk size.
FinalChunkStrict(i, total) == i + ChunkSize > total

\* is_final_package = (i + chunk_size >= total_length)
FinalChunk(i, total) == i + ChunkSize >= total

\* The failure is swallowed and the pipeline goes on.
ExhaustionSwallowed(next) == next

\* raise last_exception: the exception leaves shared_process_pipeline.
AfterExhaustion(next) == "failed"

\* The request's user entry has been appended; the pipeline starts.
TurnBegin ==
    /\ stage = "idle"
    /\ stage' = "plan"
    /\ UNCHANGED <<attempt, exhausted, items, cur, off, frames, wtask, persisted>>
    /\ UNCHANGED notStream

\* generate_response of the model client: for attempt in range(max_retries),
\* return on success, raise after the last failed attempt.
ModelCall(at, next) ==
    /\ stage = at
    /\ \/ /\ stage' = next
          /\ attempt' = 0
          /\ UNCHANGED exhausted
       \/ /\ attempt + 1 < MaxRetries
          /\ attempt' = attempt + 1
          /\ UNCHANGED <<stage, exhausted>>
       \/ /\ attempt + 1 >= MaxRetries
          /\ attempt' = 0
          /\ exhausted' = TRUE
          /\ stage' = AfterExhaustion(next)
    /\ UNCHANGED <<items, cur, off, frames, wtask, persisted>>
    /\ UNCHANGED notStream

\* Step 3a: planning_step = await self.planner.generate_response(...)
PlannerCall == ModelCall("plan", "chat")

\* Step 3b: llm_responses = await self.main_chat.generate_response(...)
MainChatCall == ModelCall("chat", "build")

\* Steps 4 to 5b: the entries are built and the write task is created; an
\* exception (a reply that is no JSON, a song that is unknown) ends the turn.
BuildEntries ==
    /\ stage = "build"
    /\ \/ \E its \in ItemLists :
            /\ items' = its
            /\ wtask' = "running"
            /\ stage' = "stream"
       \/ /\ stage' = "failed"
          /\ UNCHANGED <<items, wtask>>
    /\ UNCHANGED <<attempt, exhausted, cur, off, frames, persisted>>
    /\ UNCHANGED notStream

\* The entry the streaming loop is at.
Sending == items[cur + 1]

InLoop == stage = "stream" /\ cur < Len(items)

\* conv.type == "text": synthesize_speech_with_tone, then one frame.
YieldText ==
    /\ InLoop
    /\ Sending.kind = "text"
    /\ frames' = Append(frames, Frame(cur + 1, "content", "expression", <<0>>, TRUE))
    /\ cur' = cur + 1
    /\ UNCHANGED <<stage, attempt, exhausted, items, off, wtask, persisted>>
    /\ UNCHANGED notStream

\* conv.type == "sing", total_length == 0: one frame with audio "" and the
\* default is_final_package of ChatResponse.
YieldSilentSong ==
    /\ InLoop
    /\ Sending.kind = "sing"
    /\ Sending.audio = 0
    /\ frames' = Append(frames, Frame(cur + 1, "content", "singing", <<>>, TRUE))
    /\ cur' = cur + 1
    /\ UNCHANGED <<stage, attempt, exhausted, items, off, wtask, persisted>>
    /\ UNCHANGED notStream

\* for i in range(0, total_length, chunk_size): one frame per chunk; text and
\* expression on the first frame only.
YieldChunk ==
    /\ InLoop
    /\ Sending.kind = "sing"
    /\ Sending.audio > 0
    /\ frames' = Append(frames,
                    Frame(cur + 1,
                          IF off = 0 THEN "content" ELSE "",
                          IF off = 0 THEN "singing" ELSE "none",
                          Chunk(AudioOf(Sending.audio), off),
                          FinalChunk(off, Sending.audio)))
    /\ IF off + ChunkSize < Sending.audio
       THEN off' = off + ChunkSize /\ UNCHANGED cur
       ELSE off' = 0 /\ cur' = cur + 1
    /\ UNCHANGED <<stage, attempt, exhausted, items, wtask, persisted>>
    /\ UNCHANGED notStream

\* synthesize_speech_with_tone or get_song_segment raises: the exception
\* leaves the generator before the entry's first frame.
StreamFails ==
    /\ InLoop
    /\ off = 0
    /\ stage' = "aborted"
    /\ UNCHANGED <<attempt, exhausted, items, cur, off, frames, wtask, persisted>>
    /\ UNCHANGED notStream

\* The client goes away: the generator is closed at the yield it waits in.
ClientGone ==
    /\ stage = "stream"
    /\ frames # <<>>
    /\ stage' = "cancelled"
    /\ UNCHANGED <<attempt, exhausted, items, cur, off, frames, wtask, persisted>>
    /\ UNCHANGED notStream

\* The request is cancelled at an await before the first frame: in a model
\* call of step 3, or in the first synthesize_speech_with_tone of step 5c,
\* which comes after asyncio.create_task(unified_background_write()).
CancelledBeforeFirstFrame ==
    /\ frames = <<>>
    /\ \/ stage \in {"plan", "chat"}
       \/ InLoop /\ Sending.kind = "text"
    /\ stage' = "cancelled"
    /\ UNCHANGED <<attempt, exhausted, items, cur, off, frames, wtask, persisted>>
    /\ UNCHANGED notStream

\* The loop is over: step 6, await write_task, then the generator ends.
StreamEnd ==
    /\ stage = "stream"
    /\ cur = Len(items)
    /\ wtask \in {"committed", "rolledback"}
    /\ stage' = "done"
    /\ UNCHANGED <<attempt, exhausted, items, cur, off, frames, wtask, persisted>>
    /\ UNCHANGED notStream

\* unified_background_write: the whole new_conversation_list is appended and
\* committed, or an exception rolls the batch back.
BatchWrite ==
    /\ wtask = "running"
    /\ \/ /\ wtask' = "committed"
          /\ persisted' = [e \in 1..Len(items) |-> e]
       \/ /\ wtask' = "rolledback"
          /\ UNCHANGED persisted
    /\ UNCHANGED <<stage, attempt, exhausted, items, cur, off, frames>>
    /\ UNCHANGED notStream

NextStream ==
    \/ TurnBegin
    \/ PlannerCall
    \/ MainChatCall
    \/ BuildEntries
    \/ YieldText
    \/ YieldSilentSong
    \/ YieldChunk
    \/ StreamFails
    \/ ClientGone
    \/ CancelledBeforeFirstFrame
    \/ StreamEnd
    \/ BatchWrite

\* One turn of a new user, frame by frame.
SpecStream == Init /\ [][NextStream]_vars

\* The positions in frames of the frames of entry e.
FramesOf(e) == {i \in 1..Len(frames) : frames[i].entry = e}

\* The entries of which at least one frame was yielded.
DeliveredEntries == {frames[i].entry : i \in 1..Len(frames)}

\* The stream was stopped after its first frame.
StoppedMidStream == stage \in {"aborted", "cancelled"} /\ frames # <<>>

\* C11: when the stream stopped after its first frame and the write task
\* has committed, the agent entries in the log are exactly the entries of
\* which frames were delivered.
C11_LogHoldsDeliveredEntriesOnly ==
    (StoppedMidStream /\ wtask = "committed")
        => SeqRange(persisted) = DeliveredEntries

\* C12: when a model call of the planner or of the main generator failed on
\* all its attempts, the turn has failed, no frame was yielded, no write
\* task exists and no agent entry is in the log.
C12_ExhaustedModelCallFailsTurn ==
    exhausted =>
        /\ stage = "failed"
        /\ frames = <<>>
        /\ wtask = "none"
        /\ persisted = <<>>

C12_Witness == exhausted /\ stage = "failed" /\ attempt = 0

\* C13: frames come in the order of the entries; an entry whose frames were
\* all yielded has exactly one frame with is_final_package, its last one; a
\* text entry has exactly one frame; the entry in progress has no final
\* frame yet.
C13_FramesFollowEntries ==
    /\ \A i \in 1..Len(frames) : \A j \in 1..Len(frames) :
          i < j => frames[i].entry <= frames[j].entry
    /\ \A e \in 1..cur :
          /\ FramesOf(e) # {}
          /\ \A i \in FramesOf(e) :
                frames[i].is_final_package <=> (\A j \in FramesOf(e) : j <= i)
          /\ items[e].kind = "text" => Cardinality(FramesOf(e)) = 1
    /\ \A e \in (cur + 1)..Len(items) :
          \A i \in FramesOf(e) : ~frames[i].is_final_package

C13_Witness ==
    /\ stage = "done"
    /\ Len(items) = 2
    /\ items[1].kind = "sing" /\ items[1].audio = 2 * ChunkSize
    /\ items[2].kind = "sing" /\ items[2].audio = 0
    /\ Cardinality(FramesOf(1)) = 2

RECURSIVE Concat(_, _)
\* The audio of the frames at positions i..Len(frames) of entry e, joined.
Concat(e, i) ==
    IF i > Len(frames) THEN <<>>
    ELSE (IF frames[i].entry = e THEN frames[i].audio ELSE <<>>) \o Concat(e, i + 1)

\* ceil(a / b) for b > 0.
CeilDiv(a, b) == (a + b - 1) \div b

\* C14: a sing entry with audio of length L > 0 whose frames were all
\* yielded has ceil(L / chunk_size) frames, each chunk at most chunk_size
\* long, the chunks joined give the audio, the first frame alone carries the
\* text and the song expression, later frames have empty text and no
\* expression.
C14_SongIsChunkedExactly ==
    \A e \in 1..cur :
        (items[e].kind = "sing" /\ items[e].audio > 0) =>
            /\ Cardinality(FramesOf(e)) = CeilDiv(items[e].audio, ChunkSize)
            /\ \A i \in FramesOf(e) : Len(frames[i].audio) <= ChunkSize
            /\ Concat(e, 1) = AudioOf(items[e].audio)
            /\ \A i \in FramesOf(e) :
                  IF \A j \in FramesOf(e) : i <= j
                  THEN frames[i].text = "content" /\ frames[i].expression = "singing"
                  ELSE frames[i].text = "" /\ frames[i].expression = "none"

C14_Witness ==
    \E e \in 1..cur :
        /\ items[e].kind = "sing"
        /\ items[e].audio = MaxAudio
        /\ Cardinality(FramesOf(e)) = CeilDiv(MaxAudio, ChunkSize)

\* ------------------------------------------- the facade, call by call

\* The optimistic-lock loop of add_conversations gives up in this step: the
\* last attempt of task p ends with a WatchError.
CacheUpdateDropped(p) ==
    /\ pc[p] = "add_exec"
    /\ dirty[p]
    /\ tries[p] + 1 >= MaxAttempts
    /\ pc'[p] = AfterAdd(p)

\* C15: when the cache update of a committed append is dropped, the context
\* the next get_context_from_buffer returns holds the appended entries (in
\* its conversations, or summarized).
C15_DroppedUpdateIsRebuilt ==
    [][\A p \in Appenders :
          CacheUpdateDropped(p)
            => SeqRange(NewEntries(p))
                 \subseteq (SeqRange(NextContext'.conversations) \cup NextContext'.summary)]_vars

\* ----------------------------------------------- durable rows and keys

\* Conversation rows one behaviour holds at most.
MaxRows == 3

\* Seconds the wall clock advances at most.
MaxClock == 2

\* Longest list write_knowledge_buffers is given.
MaxKnowledge == 2

\* Contents of knowledge items.
Contents == {"ka", "kb"}

\* knowledge_contents: List[str].
KnowledgeLists == UNION {[1..n -> Contents] : n \in 0..MaxKnowledge}

\* KnowledgeBuffer.uuid: str(uuid.uuid4()), a random primary key; only the
\* order of the keys matters.
Uuids == 1..MaxKnowledge

\* Nicknames: the default, kwargs.get("new_name", "") without a name, a name.
Nicknames == {DefaultNickname, "", "Master"}

\* Positions of the keys in Keys.
CTX == 1

KNW == 2

NICK == 3

UPD == 4

\* redis.setex(key, 3600, value).
Stored(value) == [present |-> TRUE, val |-> value]

\* The one-to-one maps on 1..n.
Perms(n) == {f \in [1..n -> 1..n] : \A i, j \in 1..n : i # j => f[i] # f[j]}

\* .order_by(Conversation.timestamp.desc()): the orders in which the query
\* may return the rows; rows of the same second come in any order.
DescOrders ==
    {f \in Perms(Len(crows)) :
        \A i, j \in 1..Len(crows) : i < j => crows[f[i]].ts >= crows[f[j]].ts}

\* .limit(context_memory_count).all(), then reversed(context_conversations).
ContextPayload(f) ==
    LET n == Min(ccount, Len(crows))
    IN  [i \in 1..n |-> crows[f[n + 1 - i]].id]

\* .order_by(KnowledgeBuffer.uuid.asc()).all(), kb.content of each row.
RECURSIVE KnowledgePayload(_)
KnowledgePayload(rows) ==
    IF rows = {} THEN <<>>
    ELSE LET r == CHOOSE r \in rows : \A q \in rows : r.uuid <= q.uuid
         IN  <<r.content>> \o KnowledgePayload(rows \ {r})

\* The value step k of prefill_buffer stores.
PrefillValue(k, f) ==
    CASE k = CTX -> ContextPayload(f)
      [] k = KNW -> KnowledgePayload(krows)
      [] k = NICK -> nickname
      [] k = UPD -> <<>>

\* The keys after a run of prefill_buffer in which step failAt raises
\* (0: none does): the steps before it have stored their keys.
Prefilled(failAt, f) ==
    [k \in 1..Len(Keys) |->
        IF failAt = 0 \/ k < failAt THEN Stored(PrefillValue(k, f)) ELSE fcache[k]]

Returned(op, arg, ret, ok) == [op |-> op, arg |-> arg, ret |-> ret, ok |-> ok]

durableVars == <<crows, ccount, krows, nickname, clock>>

\* prefill_buffer(db, redis, user_id): four steps, each a query and a SETEX;
\* True after the fourth, False from the except clause.
prefill_buffer ==
    \E failAt \in 0..Len(Keys), f \in DescOrders :
        /\ fcache' = Prefilled(failAt, f)
        /\ fcall' = Returned("prefill_buffer", <<>>, <<>>, failAt = 0)
        /\ UNCHANGED durableVars
        /\ UNCHANGED notFacade

\* The TTL of a key elapses.
KeyExpires ==
    \E k \in 1..Len(Keys) :
        /\ fcache[k].present
        /\ fcache' = [fcache EXCEPT ![k] = Absent]
        /\ UNCHANGED <<durableVars, fcall>>
        /\ UNCHANGED notFacade

\* How a call that writes may end: without an exception, with one raised
\* before or by db.commit(), or with one raised by Redis after the commit.
Outcomes == {"none", "commit", "redis"}

\* item.timestamp of the entries of one call: datetime.now() with second
\* resolution, taken in the order of the entries.
Stamps(n) ==
    {st \in [1..n -> clock..MaxClock] : \A i, j \in 1..n : i < j => st[i] <= st[j]}

\* The rows of one call: the next identities with their timestamps.
NewRows(st) == [i \in 1..Len(st) |-> [ts |-> st[i], id |-> Len(crows) + i]]

Ids(rows) == [i \in 1..Len(rows) |-> rows[i].id]

\* add_conversations for one caller: rows and counters are committed, then
\* the entries are appended to user_context if the key is present.
add_conversations ==
    \E n \in 1..2, out \in Outcomes :
        /\ Len(crows) + n <= MaxRows
        /\ \E st \in Stamps(n) :
            /\ clock' = st[n]
            /\ IF out = "commit"
               THEN UNCHANGED <<crows, ccount>>
               ELSE /\ crows' = crows \o NewRows(st)
                    /\ ccount' = ccount + n
            /\ IF out = "none" /\ fcache[CTX].present
               THEN fcache' = [fcache EXCEPT ![CTX] = Stored(fcache[CTX].val \o Ids(NewRows(st)))]
               ELSE UNCHANGED fcache
            /\ fcall' = Returned("add_conversations", Ids(NewRows(st)),
                                 <<IF out = "none" THEN ccount + n ELSE 0>>, out = "none")
        /\ UNCHANGED <<krows, nickname>>
        /\ UNCHANGED notFacade

\* The rows db.add(kb) inserts for the list, with the keys u they are given.
KnowledgeRows(list, u) == {[uuid |-> u[i], content |-> list[i]] : i \in 1..Len(list)}

\* write_knowledge_buffers: delete the old rows, add the new ones, commit,
\* then SETEX user_knowledge; any exception ends in db.rollback().
write_knowledge_buffers ==
    \E list \in KnowledgeLists, out \in Outcomes :
        \E u \in {f \in [1..Len(list) -> Uuids] : \A i, j \in 1..Len(list) : i # j => f[i] # f[j]} :
            /\ krows' = IF out = "commit" THEN krows ELSE KnowledgeRows(list, u)
            /\ fcache' = IF out = "none" THEN [fcache EXCEPT ![KNW] = Stored(list)] ELSE fcache
            /\ fcall' = Returned("write_knowledge_buffers", list, <<>>, out = "none")
            /\ UNCHANGED <<crows, ccount, nickname, clock>>
            /\ UNCHANGED notFacade

\* update_user_nickname: set user.nickname, commit, then SETEX user_nickname.
update_user_nickname ==
    \E name \in Nicknames, out \in Outcomes :
        /\ nickname' = IF out = "commit" THEN nickname ELSE name
        /\ fcache' = IF out = "none" THEN [fcache EXCEPT ![NICK] = Stored(name)] ELSE fcache
        /\ fcall' = Returned("update_user_nickname", <<name>>, <<>>, out = "none")
        /\ UNCHANGED <<crows, ccount, krows, clock>>
        /\ UNCHANGED notFacade

\* if raw_data: a JSON text is never empty, so any stored value passes.
HasJson(c) == c.present

\* if nickname: the stored string passes unless it is empty.
HasName(c) == c.present /\ c.val # ""

\* get_context_from_buffer: the cached value, else prefill_buffer and the
\* value it stored, else [].
get_context_from_buffer ==
    \E failAt \in 0..Len(Keys), f \in DescOrders :
        LET hit == HasJson(fcache[CTX])
            after == IF hit THEN fcache ELSE Prefilled(failAt, f)
            ret == IF hit THEN fcache[CTX].val
                   ELSE IF failAt = 0 /\ HasJson(after[CTX]) THEN after[CTX].val
                   ELSE <<>>
        IN  /\ fcache' = after
            /\ fcall' = Returned("get_context_from_buffer", <<>>, ret, hit \/ failAt = 0)
            /\ UNCHANGED durableVars
            /\ UNCHANGED notFacade

\* get_knowledge_from_buffer: the same pattern on user_knowledge.
get_knowledge_from_buffer ==
    \E failAt \in 0..Len(Keys), f \in DescOrders :
        LET hit == HasJson(fcache[KNW])
            after == IF hit THEN fcache ELSE Prefilled(failAt, f)
            ret == IF hit THEN fcache[KNW].val
                   ELSE IF failAt = 0 /\ HasJson(after[KNW]) THEN after[KNW].val
                   ELSE <<>>
        IN  /\ fcache' = after
            /\ fcall' = Returned("get_knowledge_from_buffer", <<>>, ret, hit \/ failAt = 0)
            /\ UNCHANGED durableVars
            /\ UNCHANGED notFacade

\* get_user_nickname: the cached name if it is not empty, else
\* prefill_buffer and the name it stored if that is not empty, else None
\* (the empty sequence here; a name is returned as a one-element sequence).
get_user_nickname ==
    \E failAt \in 0..Len(Keys), f \in DescOrders :
        LET hit == HasName(fcache[NICK])
            after == IF hit THEN fcache ELSE Prefilled(failAt, f)
            ret == IF hit THEN <<fcache[NICK].val>>
                   ELSE IF failAt = 0 /\ HasName(after[NICK]) THEN <<after[NICK].val>>
                   ELSE <<>>
        IN  /\ fcache' = after
            /\ fcall' = Returned("get_user_nickname", <<>>, ret, hit \/ failAt = 0)
            /\ UNCHANGED durableVars
            /\ UNCHANGED notFacade

\* The conversation calls of one caller.
NextContextCalls ==
    \/ prefill_buffer
    \/ KeyExpires
    \/ add_conversations
    \/ get_context_from_buffer

SpecContextCalls == Init /\ [][NextContextCalls]_vars

\* The knowledge-buffer calls of one caller.
NextKnowledgeCalls ==
    \/ prefill_buffer
    \/ KeyExpires
    \/ write_knowledge_buffers
    \/ get_knowledge_from_buffer

SpecKnowledgeCalls == Init /\ [][NextKnowledgeCalls]_vars

\* The nickname calls of one caller.
NextNicknameCalls ==
    \/ prefill_buffer
    \/ KeyExpires
    \/ update_user_nickname
    \/ get_user_nickname

SpecNicknameCalls == Init /\ [][NextNicknameCalls]_vars

\* C16: a run of prefill_buffer that returns False has stored none of the
\* four keys.
C16_FailedPrefillWritesNothing ==
    [][(prefill_buffer /\ ~fcall'.ok) => fcache' = fcache]_vars

\* The sequence s ends with the sequence t.
EndsWith(s, t) ==
    /\ Len(s) >= Len(t)
    /\ SubSeq(s, Len(s) - Len(t) + 1, Len(s)) = t

\* C17: a get_context_from_buffer that follows a successful
\* add_conversations(entries) of the same caller, with the key cached or
\* expired in between, returns conversations that end with the entries in
\* the order they were given.
C17_ReadAfterAppendEndsWithEntries ==
    [][(/\ get_context_from_buffer
        /\ fcall.op = "add_conversations"
        /\ fcall.ok
        /\ fcall'.ok)
          => EndsWith(fcall'.ret, fcall.arg)]_vars

\* C18: a get_knowledge_from_buffer that follows a successful
\* write_knowledge_buffers(list), with the key cached or expired in between,
\* returns the list: the same elements in the same order.
C18_KnowledgeRoundTrip ==
    [][(/\ get_knowledge_from_buffer
        /\ fcall.op = "write_knowledge_buffers"
        /\ fcall.ok
        /\ fcall'.ok)
          => fcall'.ret = fcall.arg]_vars

\* The row holds the default nickname and the key, if cached, holds it too:
\* so it is for a user whose nickname was never updated.
NeverRenamed ==
    /\ nickname = DefaultNickname
    /\ fcache[NICK] \in {Absent, Stored(DefaultNickname)}

\* C19: a get_user_nickname that follows a successful
\* update_user_nickname(name) returns the name, whatever the name; a user
\* whose nickname was never updated reads the default.
C19_NicknameRoundTrip ==
    [][(get_user_nickname /\ fcall'.ok)
          => /\ (fcall.op = "update_user_nickname" /\ fcall.ok) => fcall'.ret = fcall.arg
             /\ NeverRenamed => fcall'.ret = <<DefaultNickname>>]_vars

\* The rows hold exactly the items of the list, each as often as the list.
HoldsExactly(rows, list) ==
    \A c \in Contents :
        Cardinality({r \in rows : r.content = c})
            = Cardinality({i \in 1..Len(list) : list[i] = c})

\* C20: write_knowledge_buffers replaces the list atomically: after a
\* successful call the rows are exactly the new list, and after a failed
\* call the rows and the cached user_knowledge are what they were before.
C20_KnowledgeReplaceIsAtomic ==
    [][write_knowledge_buffers
          => IF fcall'.ok
             THEN HoldsExactly(krows', fcall'.arg)
             ELSE krows' = krows /\ fcache'[KNW] = fcache[KNW]]_vars

\* ------------------------------------------------- the Memory Writer

\* Commands one run of process_interaction executes at most.
MaxCmds == 2

\* Length of a record id (a uuid4 string, shortened).
IdLen == 2

\* The characters ids are written with.
IdChars == {"a", "b"}

\* The ids of vector records.
DocIds == [1..IdLen -> IdChars]

\* update.uuid of a recent update that has none (None).
NoId == <<>>

\* kwargs.get("uuid", ""): a prefix of an id, possibly empty.
Prefixes == UNION {[1..n -> IdChars] : n \in 0..IdLen}

\* Sequences of at most n different elements of S.
DistinctSeqs(S, n) ==
    {q \in UNION {[1..k -> S] : k \in 0..n} : \A i, j \in 1..Len(q) : i # j => q[i] # q[j]}

\* The sequence s without the elements that are NoId: if update.uuid.
RECURSIVE WithId(_)
WithId(s) ==
    IF s = <<>> THEN <<>>
    ELSE IF Head(s) = NoId THEN WithId(Tail(s))
    ELSE <<Head(s)>> \o WithId(Tail(s))

\* uuid.startswith(uuid_short).
StartsWith(id, short) ==
    /\ Len(short) <= Len(id)
    /\ SubSeq(id, 1, Len(short)) = short

\* The last candidate that starts with the short id.
RECURSIVE ResolveLast(_, _)
ResolveLast(cands, short) ==
    IF cands = <<>> THEN NoId
    ELSE IF StartsWith(cands[Len(cands)], short) THEN cands[Len(cands)]
    ELSE ResolveLast(SubSeq(cands, 1, Len(cands) - 1), short)

\* for uuid in uuid_can_be_used: ... break / else: uuid_to_update = None.
RECURSIVE Resolve(_, _)
Resolve(cands, short) ==
    IF cands = <<>> THEN NoId
    ELSE IF StartsWith(Head(cands), short) THEN Head(cands)
    ELSE Resolve(Tail(cands), short)

\* MemoryUpdateCommand(type=..., uuid=...), as written by write_memory_update.
UpdateRecord(type, id) == [type |-> type, uuid |-> id]

\* write_memory_update on the session of the write task: the record is
\* added to the session; an exception after that is caught and answered by
\* db.rollback(), which empties the session.
Recorded(rec, ok) == IF ok THEN Append(staged, rec) ELSE <<>>

\* process_interaction begins: used_uuid and recent_update are read and
\* uuid_can_be_used is built from them, the used ids first.
WriterBegin ==
    /\ mstage = "idle"
    /\ \E usedIds \in DistinctSeqs(DocIds, 2), recent \in DistinctSeqs(DocIds \cup {NoId}, 1) :
        /\ candidates' = usedIds \o WithId(recent)
        /\ vdocs' = SeqRange(usedIds) \cup SeqRange(WithId(recent))
    /\ mstage' = "run"
    /\ UNCHANGED <<vlog, staged, committed, ncmd, lastcmd>>
    /\ UNCHANGED notWriter

\* A command with "add" in its name: v_add.  add_documents raises (the
\* exception leaves the write task through its except clause: rollback) or
\* stores the document under a new id; then the command is recorded.
VAdd ==
    /\ mstage = "run"
    /\ ncmd < MaxCmds
    /\ ncmd' = ncmd + 1
    /\ \/ /\ mstage' = "rolledback"
          /\ staged' = <<>>
          /\ lastcmd' = [kind |-> "v_add", prefix |-> <<>>, target |-> NoId]
          /\ UNCHANGED <<vdocs, vlog>>
       \/ \E id \in DocIds \ vdocs, ok \in BOOLEAN :
            /\ vdocs' = vdocs \cup {id}
            /\ vlog' = Append(vlog, UpdateRecord("v_add", id))
            /\ staged' = Recorded(UpdateRecord("v_add", id), ok)
            /\ lastcmd' = [kind |-> "v_add", prefix |-> <<>>, target |-> id]
            /\ UNCHANGED mstage
    /\ UNCHANGED <<candidates, committed>>
    /\ UNCHANGED notWriter

\* A command with "update" in its name: the short id is resolved, then
\* v_update: nothing without an id; update_document changes the record and
\* returns True, or fails and returns False; a change is recorded.
VUpdate ==
    /\ mstage = "run"
    /\ ncmd < MaxCmds
    /\ ncmd' = ncmd + 1
    /\ \E short \in Prefixes :
        LET uuid_to_update == Resolve(candidates, short)
        IN  /\ lastcmd' = [kind |-> "v_update", prefix |-> short, target |-> uuid_to_update]
            /\ \/ /\ uuid_to_update # NoId
                  /\ \E ok \in BOOLEAN :
                        /\ vlog' = Append(vlog, UpdateRecord("v_update", uuid_to_update))
                        /\ staged' = Recorded(UpdateRecord("v_update", uuid_to_update), ok)
               \/ UNCHANGED <<vlog, staged>>
    /\ UNCHANGED <<mstage, vdocs, candidates, committed>>
    /\ UNCHANGED notWriter

\* A command with "username" in its name: no vector record, no update
\* record.
UpdateUsername ==
    /\ mstage = "run"
    /\ ncmd < MaxCmds
    /\ ncmd' = ncmd + 1
    /\ lastcmd' = [kind |-> "update_username", prefix |-> <<>>, target |-> NoId]
    /\ UNCHANGED <<mstage, vdocs, vlog, candidates, staged, committed>>
    /\ UNCHANGED notWriter

\* The commands are exhausted: async_db.commit() writes what the session
\* holds, or raises: async_db.rollback().
WriterCommit ==
    /\ mstage = "run"
    /\ \/ /\ committed' = committed \o staged
          /\ mstage' = "committed"
       \/ /\ mstage' = "rolledback"
          /\ UNCHANGED committed
    /\ staged' = <<>>
    /\ UNCHANGED <<vdocs, vlog, candidates, ncmd, lastcmd>>
    /\ UNCHANGED notWriter

NextWriter ==
    \/ WriterBegin
    \/ VAdd
    \/ VUpdate
    \/ UpdateUsername
    \/ WriterCommit

SpecWriter == Init /\ [][NextWriter]_vars

\* The background write has finished, one way or the other.
WriterFinished == mstage \in {"committed", "rolledback"}

\* C21: once the background write has finished, commit or rollback, the
\* durable log holds a MemoryUpdateCommand record for every write the Memory
\* Writer made to the vector index.
C21_EveryVectorWriteIsLogged ==
    WriterFinished => \A i \in 1..Len(vlog) : \E j \in 1..Len(committed) : committed[j] = vlog[i]

\* The positions of the candidates that start with the short id.
Matches(short) == {i \in 1..Len(candidates) : StartsWith(candidates[i], short)}

\* The smallest element of a non-empty set of numbers.
First(S) == CHOOSE i \in S : \A j \in S : i <= j

\* This step executes a v_update command.
UpdateStep == ncmd' = ncmd + 1 /\ lastcmd'.kind = "v_update"

\* C22: a v_update changes at most one vector record, the first candidate
\* of uuid_can_be_used (used ids, then ids of recent updates) that starts
\* with the given prefix; when no candidate does, no vector record is
\* changed and no MemoryUpdateCommand is recorded.
C22_UpdateHitsFirstMatchingCandidate ==
    [][UpdateStep =>
          IF Matches(lastcmd'.prefix) = {}
          THEN vlog' = vlog /\ staged' = staged
          ELSE \/ vlog' = vlog /\ staged' = staged
               \/ /\ vlog' = Append(vlog, UpdateRecord("v_update",
                                      candidates[First(Matches(lastcmd'.prefix))]))
                  /\ staged' \in {<<>>, Append(staged, vlog'[Len(vlog')])}]_vars

\* A v_update whose prefix fits two candidates has changed a record.
C22_Witness ==
    /\ lastcmd.kind = "v_update"
    /\ Cardinality(Matches(lastcmd.prefix)) >= 2
    /\ vlog # <<>>
    /\ vlog[Len(vlog)] = UpdateRecord("v_update", lastcmd.target)
    /\ staged # <<>>

\* ------------------------------------------- retrieval: MemorySearcher

\* Tool calls one plan holds at most.
MaxPlan == 2

\* Hits one vector search returns at most (max_k_vector_entities, scaled).
MaxHits == 2

\* if score < 0.50: scores are written in hundredths.
Threshold == 50

\* 1.0 / (1.0 + distance), in hundredths: below, at and above the threshold.
Scores == {40, 50, 60}

\* Ids of the records a vector search can hit.
HitIds == {"d1", "d2"}

\* Characters of the texts: a blank and two letters.
Chars == {" ", "x", "y"}

\* item.strip()[:50]: the length of the prefix compared, scaled down.
PrefixLen == 1

\* Longest text.
MaxText == 2

\* The texts: strings as sequences of characters.
Texts == UNION {[1..n -> Chars] : n \in 0..MaxText}

\* The tools registered in tool_map that the model covers.
ToolMap == {"inherit_memory", "memory_search"}

\* tool_name of a tool call: a registered tool or not.
ToolNames == ToolMap \cup {"no_such_tool"}

\* The keys of context_map.
ContextKeys == {"last_search_results", "vector_store", "used_uuid", "user_id", "knowledge_db"}

\* additional_required_params of a tool.
Required(tool) ==
    IF tool = "memory_search" THEN {"vector_store", "used_uuid", "user_id"}
    ELSE IF tool = "inherit_memory" THEN {"last_search_results"}
    ELSE {}

\* The declared parameter of a tool (tool_interface.parameters).
Declared(tool) == IF tool = "memory_search" THEN "query" ELSE "content_ids"

\* parameters of a tool call as the model wrote them: the declared one, or
\* also values of its own for the keys the dispatcher injects.
ModelKwargs(tool) ==
    {[k \in {Declared(tool)} |-> "model"],
     [k \in {Declared(tool)} \cup Required(tool) |-> "model"]}

\* The values of the model win over the injected ones.
MergeModelLast(tool, kwargs) ==
    [k \in DOMAIN kwargs \cup (Required(tool) \cap ContextKeys) |->
        IF k \in DOMAIN kwargs THEN kwargs[k] ELSE "runtime"]

\* call_kwargs.update(kwargs), then call_kwargs[req_param] =
\* context_map[req_param] for the required keys context_map has.
Merge(tool, kwargs) ==
    [k \in DOMAIN kwargs \cup (Required(tool) \cap ContextKeys) |->
        IF k \in Required(tool) \cap ContextKeys THEN "runtime" ELSE kwargs[k]]

\* One (tool_name, parameters) of search_queries; fails: the executor will
\* raise when called; object: parameters is a JSON object (not null, a
\* string or a number: tool_use.get("parameters", {}) takes what is there).
ToolCalls ==
    UNION {{[tool |-> t, kwargs |-> kw, fails |-> f, object |-> TRUE] :
                kw \in ModelKwargs(t), f \in BOOLEAN} : t \in ToolMap}
    \cup {[tool |-> t, kwargs |-> <<>>, fails |-> FALSE, object |-> FALSE] : t \in ToolMap}
    \cup {[tool |-> "no_such_tool", kwargs |-> kw, fails |-> FALSE, object |-> TRUE] :
            kw \in {[k \in {"query"} |-> "model"]}}

Plans == UNION {[1..n -> ToolCalls] : n \in 0..MaxPlan}

\* The results of vector_store.search: different records, best score first.
HitLists ==
    {h \in UNION {[1..n -> [id : HitIds, score : Scores]] : n \in 0..MaxHits} :
        \A i, j \in 1..Len(h) : i < j => h[i].id # h[j].id /\ h[i].score >= h[j].score}

\* Every record counts as not yet used.
UnseenAlways(id, usedSet) == TRUE

\* if doc.id not in used_uuid.
Unseen(id, usedSet) == id \notin usedSet

\* _vector_search: the loop over the hits; stops at the first score below
\* the threshold, takes the records not used so far and marks them used.
RECURSIVE VectorSearch(_, _, _)
VectorSearch(hits, usedSet, out) ==
    IF hits = <<>> THEN [out |-> out, used |-> usedSet]
    ELSE IF Head(hits).score < Threshold THEN [out |-> out, used |-> usedSet]
    ELSE IF Unseen(Head(hits).id, usedSet)
         THEN VectorSearch(Tail(hits), usedSet \cup {Head(hits).id}, Append(out, Head(hits)))
         ELSE VectorSearch(Tail(hits), usedSet, out)

\* The text a hit contributes to returned_results.
HitText(h) == IF h.id = "d1" THEN <<"x", "y">> ELSE <<"x", "x">>

\* str.strip(): without the blanks at both ends.
RECURSIVE Strip(_)
Strip(t) ==
    IF t = <<>> THEN t
    ELSE IF Head(t) = " " THEN Strip(Tail(t))
    ELSE IF t[Len(t)] = " " THEN Strip(SubSeq(t, 1, Len(t) - 1))
    ELSE t

\* item.strip()[:50].
ItemRepr(t) == SubSeq(Strip(t), 1, Min(PrefixLen, Len(Strip(t))))

\* An item is kept unless its own text was seen.
RECURSIVE DuplicateRemovalExact(_, _)
DuplicateRemovalExact(seq, seen) ==
    IF seq = <<>> THEN <<>>
    ELSE IF Head(seq) \in seen THEN DuplicateRemovalExact(Tail(seq), seen)
    ELSE <<Head(seq)>> \o DuplicateRemovalExact(Tail(seq), seen \cup {Head(seq)})

\* duplicate_removal: the loop over seq with the set seen.
RECURSIVE DuplicateRemoval(_, _)
DuplicateRemoval(seq, seen) ==
    IF seq = <<>> THEN <<>>
    ELSE IF ItemRepr(Head(seq)) \in seen THEN DuplicateRemoval(Tail(seq), seen)
    ELSE <<Head(seq)>> \o DuplicateRemoval(Tail(seq), seen \cup {ItemRepr(Head(seq))})

\* What the model answered: a JSON text with a list of tool calls, a text
\* json.loads rejects (or no answer at all), or a list with an entry that is
\* not an object.
Outputs == {"ok", "undecodable", "broken"}

\* _generate_search_queries: cmd as returned from the finally clause: the
\* whole list; nothing; the tool calls before the entry that raised.
Parsed(calls, output) ==
    IF output = "ok" THEN {calls}
    ELSE IF output = "undecodable" THEN {<<>>}
    ELSE {SubSeq(calls, 1, k) : k \in 0..(Len(calls) - 1)}

\* Items inherit_memory hands back from last_search_results.
InheritLists == {<<>>, <<<<"x">>>>, <<<<" ", "x">>>>}

Texts_of(hits) == [i \in 1..Len(hits) |-> HitText(hits[i])]

\* What is noted of a tool call gone through.
Noted(pos, call, status, received, hits, out) ==
    [pos |-> pos, tool |-> call.tool, status |-> status, received |-> received,
     hits |-> hits, out |-> out]

\* search, up to the loop: the plan is generated, used_uuid = set(),
\* returned_results = [].
SearchBegin ==
    /\ sstage = "idle"
    /\ \E calls \in Plans, output \in Outputs :
        \E cmd \in Parsed(calls, output) :
            plan' = [calls |-> cmd, output |-> output]
    /\ sstage' = "run"
    /\ sidx' = 0
    /\ used' = {}
    /\ results' = <<>>
    /\ trace' = <<>>
    /\ UNCHANGED <<kbuf, usedKey>>
    /\ UNCHANGED <<pin, pout>>
    /\ UNCHANGED notSearch

\* One round of for funcname, kwargs in search_queries: an unknown tool is
\* skipped; else the parameters are merged, which raises out of search when
\* they are not an object (call_kwargs.update(kwargs) stands before the
\* try), and the executor is called; an exception of the executor is
\* logged, a result is added to returned_results.
Dispatch ==
    /\ sstage = "run"
    /\ sidx < Len(plan.calls)
    /\ LET call == plan.calls[sidx + 1]
           received == Merge(call.tool, call.kwargs)
       IN  /\ sidx' = sidx + 1
           /\ sstage' = IF call.tool \in ToolMap /\ ~call.object THEN "raised" ELSE sstage
           /\ IF call.tool \notin ToolMap
              THEN /\ trace' = Append(trace, Noted(sidx + 1, call, "unknown", <<>>, <<>>, <<>>))
                   /\ UNCHANGED <<used, results>>
              ELSE IF ~call.object
              THEN /\ trace' = Append(trace, Noted(sidx + 1, call, "aborted", <<>>, <<>>, <<>>))
                   /\ UNCHANGED <<used, results>>
              ELSE IF call.fails
              THEN /\ trace' = Append(trace, Noted(sidx + 1, call, "raised", received, <<>>, <<>>))
                   /\ UNCHANGED <<used, results>>
              ELSE IF call.tool = "memory_search"
              THEN \E hits \in HitLists :
                       LET r == VectorSearch(hits, used, <<>>)
                       IN  /\ used' = r.used
                           /\ results' = results \o Texts_of(r.out)
                           /\ trace' = Append(trace, Noted(sidx + 1, call, "ok", received, hits, r.out))
              ELSE \E list \in InheritLists :
                       /\ results' = results \o list
                       /\ trace' = Append(trace, Noted(sidx + 1, call, "ok", received, <<>>, <<>>))
                       /\ UNCHANGED used
    /\ UNCHANGED <<plan, kbuf, usedKey>>
    /\ UNCHANGED <<pin, pout>>
    /\ UNCHANGED notSearch

\* After the loop: duplicate_removal, write_knowledge_buffers,
\* write_used_memory_uuid, return returned_results.
SearchEnd ==
    /\ sstage = "run"
    /\ sidx = Len(plan.calls)
    /\ results' = DuplicateRemoval(results, {})
    /\ kbuf' = [present |-> TRUE, val |-> results']
    /\ usedKey' = [present |-> TRUE, val |-> used]
    /\ sstage' = "done"
    /\ UNCHANGED <<plan, sidx, used, trace>>
    /\ UNCHANGED <<pin, pout>>
    /\ UNCHANGED notSearch

NextSearch ==
    \/ SearchBegin
    \/ Dispatch
    \/ SearchEnd

SpecSearch == Init /\ [][NextSearch]_vars

\* The ids of a list of hits.
IdsOf(hits) == {hits[i].id : i \in 1..Len(hits)}

\* The ids the tool calls of this retrieval have returned.
ReturnedIds == UNION {IdsOf(trace[i].out) : i \in 1..Len(trace)}

Malformed ==
    \/ plan.output \in {"undecodable", "broken"}
    \/ \E i \in 1..Len(plan.calls) : ~plan.calls[i].object

\* C24: a tool call that names an unknown tool or whose executor raises is
\* skipped and the later tool calls are still executed in the listed order;
\* a malformed answer of the model gives an empty plan; in all these cases
\* search stores the knowledge buffer and the used ids and returns.
C24_SkippedToolCallsDoNotStopThePlan ==
    /\ \A i \in 1..Len(trace) :
        /\ trace[i].pos = i
        /\ trace[i].tool = plan.calls[i].tool
        /\ trace[i].status \in {"unknown", "raised", "ok"}
    /\ Malformed => plan.calls = <<>>
    /\ sstage # "raised"
    /\ sstage = "done" =>
        /\ Len(trace) = Len(plan.calls)
        /\ kbuf = [present |-> TRUE, val |-> results]
        /\ usedKey.present

\* The executor of tool call i was invoked.
Invoked(i) == trace[i].status \in {"ok", "raised"}

\* C25: for every tool call dispatched, the executor receives for each
\* injected key of the tool the value of the dispatcher and never the one
\* the model wrote; so runs that differ only in what the model wrote for
\* those keys invoke the executor with the same injected values.
C25_InjectedKeysComeFromTheDispatcher ==
    \A i \in 1..Len(trace) :
        Invoked(i) =>
            \A k \in Required(trace[i].tool) :
                k \in DOMAIN trace[i].received /\ trace[i].received[k] = "runtime"

\* A memory_search was executed for which the model had written a value of
\* its own for used_uuid.
C25_Witness ==
    \E i \in 1..Len(trace) :
        /\ trace[i].tool = "memory_search"
        /\ trace[i].status = "ok"
        /\ "used_uuid" \in DOMAIN plan.calls[i].kwargs
        /\ plan.calls[i].kwargs["used_uuid"] = "model"

\* ------------------------------------------------ duplicate_removal

\* Longest list of tool outputs.
MaxList == 3

\* returned_results before the deduplication: any list of texts.
TextLists == UNION {[1..n -> Texts] : n \in 0..MaxList}

\* returned_results = duplicate_removal(returned_results), on any list.
duplicate_removal ==
    /\ PureIdle
    /\ \E seq \in TextLists :
        /\ pin' = seq
        /\ pout' = DuplicateRemoval(seq, {})
    /\ UNCHANGED notPure

NextDedup == duplicate_removal

SpecDedup == Init /\ [][NextDedup]_vars

\* The positions of seq whose item has a prefix no earlier item has.
FirstOfPrefix(seq) ==
    {i \in 1..Len(seq) : \A j \in 1..(i - 1) : ItemRepr(seq[j]) # ItemRepr(seq[i])}

\* The items of seq at the positions in S, in the order of seq.
RECURSIVE Pick(_, _)
Pick(seq, S) ==
    IF S = {} THEN <<>>
    ELSE LET i == First(S) IN <<seq[i]>> \o Pick(seq, S \ {i})

\* C26: the deduplication returns, in their order, exactly the items that
\* are the first with their 50-character prefix of the trimmed text (a
\* subsequence of the input); no two items of the result share that prefix;
\* and deduplicating the result again changes nothing.
C26_DeduplicationKeepsFirstOfEachPrefix ==
    /\ pout = Pick(pin, FirstOfPrefix(pin))
    /\ \A i, j \in 1..Len(pout) : i # j => ItemRepr(pout[i]) # ItemRepr(pout[j])
    /\ Pick(pout, FirstOfPrefix(pout)) = pout

\* A list was deduplicated in which two different texts share the prefix
\* after trimming, and a third text does not.
C26_Witness ==
    /\ Len(pin) = 3
    /\ Len(pout) = 2
    /\ pin[1] # pin[2]
    /\ ItemRepr(pin[1]) = ItemRepr(pin[2])
    /\ Strip(pin[2]) # pin[2]
    /\ pout = <<pin[1], pin[3]>>

\* ---------------------------------------------------------------------
\* History request: handle_history_request over get_history_from_db.
\* A user's conversation rows are named by their position in timestamp
\* order, 0 being the oldest.
\* ---------------------------------------------------------------------

\* Conversation rows of the user.
MaxTotal == 4

\* Values of the count query parameter.
Counts == (0 - 1)..(MaxTotal + 1)

\* Values of the end_index query parameter.
EndIndexes == (0 - 2)..(MaxTotal + 2)

Max(a, b) == IF a >= b THEN a ELSE b

\* ORDER BY timestamp ASC OFFSET start LIMIT end - start over total rows.
OffsetLimit(total, start, end) ==
    [i \in 1..Max(0, Min(end, total) - start) |-> start + i - 1]

\* get_history_from_db: every selected row is turned into a
\* ConversationItem built from timestamp, source, content and type only;
\* the dataclass has a required field uuid, so the construction raises
\* TypeError as soon as one row is selected.
HistoryFromDb(total, start, end) ==
    LET rows == IF end - start <= 0 THEN <<>> ELSE OffsetLimit(total, start, end)
    IN  [raised |-> rows # <<>>, items |-> <<>>]

\* handle_history_request: the response, or the exception that leaves it.
HistoryRequest(total, count, end_index) ==
    LET end == IF end_index = 0 - 1 \/ end_index > total THEN total ELSE end_index
        start == Max(0, end - count)
    IN  IF start >= end
        THEN [raised |-> FALSE, history |-> <<>>, start_index |-> 0]
        ELSE LET fetched == HistoryFromDb(total, start, end)
             IN  IF fetched.raised
                 THEN [raised |-> TRUE, history |-> <<>>, start_index |-> 0]
                 ELSE [raised |-> FALSE, history |-> fetched.items, start_index |-> start]

handle_history_request ==
    /\ PureIdle
    /\ \E total \in 0..MaxTotal, count \in Counts, end_index \in EndIndexes :
        /\ pin' = <<total, count, end_index>>
        /\ pout' = <<HistoryRequest(total, count, end_index)>>
    /\ UNCHANGED notPure

NextHistory == handle_history_request

SpecHistory == Init /\ [][NextHistory]_vars

\* C27: for every total T, count N and end_index E the history request
\* returns the entries at positions [max(0, end - N), end) in
\* chronological order, with end = T when E = -1 or E > T and end = E
\* otherwise, and start_index the first returned position; an empty range
\* gives an empty list and start_index 0.
C27_HistoryRequestReturnsTheSlice ==
    pin # <<>> =>
        LET T == pin[1]
            N == pin[2]
            E == pin[3]
            end == IF E = 0 - 1 \/ E > T THEN T ELSE E
            first == Max(0, end - N)
        IN  /\ ~pout[1].raised
            /\ IF first < end
               THEN /\ pout[1].history = [i \in 1..(end - first) |-> first + i - 1]
                    /\ pout[1].start_index = first
               ELSE /\ pout[1].history = <<>>
                    /\ pout[1].start_index = 0

\* The part of C27 the code keeps: an empty range is answered with an
\* empty list and start_index 0.
C27_EmptyRangeIsAnsweredEmpty ==
    pin # <<>> =>
        LET T == pin[1]
            end == IF pin[3] = 0 - 1 \/ pin[3] > T THEN T ELSE pin[3]
        IN  Max(0, end - pin[2]) >= end =>
                pout[1] = [raised |-> FALSE, history |-> <<>>, start_index |-> 0]

\* ---------------------------------------------------------------------
\* Registration: POST /auth/register over register_user.
\* ---------------------------------------------------------------------

\* Invite codes a request may name: the stored ones and one nobody stored.
CodeStrings == InviteCodes \cup {"zz"}

LoopFreeAlways == TRUE

\* register is a coroutine (async def) and calls register_user without
\* awaiting anything: the event loop runs one such call from its first
\* statement to its return before it starts the next.
LoopFree == loop = 0

\* A request has reached the server and waits for the event loop; the
\* requests are numbered in the order they arrive.
Arrive(c) ==
    /\ rpc[c] = "idle"
    /\ \A d \in 1..(c - 1) : rpc[d] # "idle"
    /\ \E username \in Usernames, invite_code \in CodeStrings :
        rarg' = [rarg EXCEPT ![c] = [username |-> username, invite_code |-> invite_code]]
    /\ rpc' = [rpc EXCEPT ![c] = "queued"]
    /\ UNCHANGED <<rres, loop, users, codes>>
    /\ UNCHANGED notReg

\* The event loop starts the handler.
BeginRegister(c) ==
    /\ rpc[c] = "queued"
    /\ LoopFree
    /\ rpc' = [rpc EXCEPT ![c] = "check_code"]
    /\ loop' = c
    /\ UNCHANGED <<rarg, rres, users, codes>>
    /\ UNCHANGED notReg

\* The handler returns or raises: the event loop is free again.
Answered(c, answer) ==
    /\ rpc' = [rpc EXCEPT ![c] = "done"]
    /\ rres' = [rres EXCEPT ![c] = answer]
    /\ loop' = IF loop = c THEN 0 ELSE loop

\* 1. Check Invite Code.
CheckInviteCode(c) ==
    /\ rpc[c] = "check_code"
    /\ LET k == rarg[c].invite_code
       IN  IF k \notin DOMAIN codes
           THEN Answered(c, "invalid_code")
           ELSE IF codes[k].is_used
                THEN Answered(c, "used_code")
                ELSE /\ rpc' = [rpc EXCEPT ![c] = "check_username"]
                     /\ UNCHANGED <<rres, loop>>
    /\ UNCHANGED <<rarg, users, codes>>
    /\ UNCHANGED notReg

\* 2. Check Username.
CheckUsername(c) ==
    /\ rpc[c] = "check_username"
    /\ IF \E u \in users : u.username = rarg[c].username
       THEN Answered(c, "name_taken")
       ELSE /\ rpc' = [rpc EXCEPT ![c] = "create"]
            /\ UNCHANGED <<rres, loop>>
    /\ UNCHANGED <<rarg, users, codes>>
    /\ UNCHANGED notReg

\* 3. Create User, 4. Update Invite Code, commit: one write transaction.
\* The INSERT fails when the database stays locked beyond the busy
\* timeout or when the username is already there (unique index); the
\* exception leaves the handler and closing the session rolls back.
CreateUser(c) ==
    /\ rpc[c] = "create"
    /\ \E locked \in BOOLEAN :
        IF locked \/ \E u \in users : u.username = rarg[c].username
        THEN /\ Answered(c, "error")
             /\ UNCHANGED <<users, codes>>
        ELSE /\ Answered(c, "ok")
             /\ users' = users \cup {[uuid |-> c, username |-> rarg[c].username]}
             /\ codes' = [codes EXCEPT ![rarg[c].invite_code] =
                                          [is_used |-> TRUE, user_id |-> c]]
    /\ UNCHANGED rarg
    /\ UNCHANGED notReg

NextRegister ==
    \E c \in Calls :
        \/ Arrive(c)
        \/ BeginRegister(c)
        \/ CheckInviteCode(c)
        \/ CheckUsername(c)
        \/ CreateUser(c)

SpecRegister == Init /\ [][NextRegister]_vars

\* The requests that were answered "registered" with invite code k.
RegisteredWith(k) == {c \in Calls : rres[c] = "ok" /\ rarg[c].invite_code = k}

\* C28: over any sequence or interleaving of registration requests, a
\* registration succeeds only with a stored, unused invite code and an
\* unused username; every invite code is bound to at most one user; a
\* request that is refused creates no user and changes no invite code.
C28_InviteCodesAreConsumedOneToOne ==
    [][\A c \in Calls :
        /\ (rres[c] = "none" /\ rres'[c] = "ok") =>
              /\ rarg[c].invite_code \in InviteCodes
              /\ ~codes[rarg[c].invite_code].is_used
              /\ \A u \in users : u.username # rarg[c].username
              /\ codes'[rarg[c].invite_code] = [is_used |-> TRUE, user_id |-> c]
              /\ \A k \in InviteCodes \ {rarg[c].invite_code} : codes'[k] = codes[k]
              /\ users' = users \cup {[uuid |-> c, username |-> rarg[c].username]}
        /\ (rres[c] = "none" /\ rres'[c] # "none" /\ rres'[c] # "ok") =>
              /\ users' = users
              /\ codes' = codes
        /\ \A k \in InviteCodes :
              /\ Cardinality(RegisteredWith(k)') <= 1
              /\ codes'[k].is_used <=> RegisteredWith(k)' # {}
              /\ \A u \in users' : codes'[k].user_id = u.uuid => RegisteredWith(k)' = {u.uuid}
        /\ \A u, v \in users' : u.username = v.username => u = v
    ]_vars

\* One invite code was used up by a first request; a second request with
\* the same code and a third with the same username were refused.
C28_Witness ==
    \E c1, c2, c3 \in Calls :
        /\ rres[c1] = "ok"
        /\ rres[c2] = "used_code"
        /\ rarg[c2].invite_code = rarg[c1].invite_code
        /\ rres[c3] = "name_taken"
        /\ rarg[c3].username = rarg[c1].username
        /\ codes[rarg[c1].invite_code].user_id = c1
        /\ Cardinality(users) = 1

\* ---------------------------------------------------------------------
\* Sentence splitter: _split_responses. A text is a sequence of
\* characters; a response is modelled by its content.
\* ---------------------------------------------------------------------

\* The buffer is flushed when it has this many characters.
FlushLen == 6

\* Pieces one input text is put together from.
MaxPieces == 5

\* The punctuation of the character class; "," stands for all of them.
Punctuation == {","}

Ellipsis == <<".", ".", ".">>

\* A run of letters one short of the flush length.
LongWord == [i \in 1..(FlushLen - 1) |-> "a"]

\* A letter, each punctuation, a blank, the two parentheses and a word.
Pieces == {<<"a">>, <<",">>, <<" ">>, <<"(">>, <<")">>, Ellipsis, LongWord}

RECURSIVE Flatten(_)
Flatten(ps) == IF ps = <<>> THEN <<>> ELSE Head(ps) \o Flatten(Tail(ps))

\* The texts _split_responses is given.
SplitInputs == {Flatten(ps) : ps \in UNION {[1..n -> Pieces] : n \in 0..MaxPieces}}

\* "..." stands at position i of t.
EllipsisAt(t, i) == i + 2 <= Len(t) /\ SubSeq(t, i, i + 2) = Ellipsis

\* re.split with the delimiter captured: text, delimiter, text, ... ;
\* the pieces of text may be empty.
RECURSIVE ReSplit(_, _, _, _)
ReSplit(t, i, word, parts) ==
    IF i > Len(t) THEN Append(parts, word)
    ELSE IF EllipsisAt(t, i) THEN ReSplit(t, i + 3, <<>>, parts \o <<word, Ellipsis>>)
    ELSE IF t[i] \in Punctuation THEN ReSplit(t, i + 1, <<>>, parts \o <<word, <<t[i]>>>>)
    ELSE ReSplit(t, i + 1, Append(word, t[i]), parts)

\* punct_pattern: the part is one or more delimiters and nothing else.
RECURSIVE PunctOnly(_)
PunctOnly(s) ==
    /\ s # <<>>
    /\ \/ /\ Head(s) \in Punctuation
          /\ Tail(s) = <<>> \/ PunctOnly(Tail(s))
       \/ /\ EllipsisAt(s, 1)
          /\ Len(s) = 3 \/ PunctOnly(SubSeq(s, 4, Len(s)))

\* sentences_with_punct: empty parts are dropped and a delimiter joins
\* the sentence before it, if there is one.
RECURSIVE SentencesWithPunct(_, _)
SentencesWithPunct(parts, sentences) ==
    IF parts = <<>> THEN sentences
    ELSE LET s == Head(parts)
         IN  IF s = <<>> THEN SentencesWithPunct(Tail(parts), sentences)
             ELSE IF PunctOnly(s) /\ sentences # <<>>
                  THEN SentencesWithPunct(Tail(parts),
                           [sentences EXCEPT ![Len(sentences)] = @ \o s])
                  ELSE SentencesWithPunct(Tail(parts), Append(sentences, s))

\* The match of ^(\(.*?\)) : from the opening parenthesis the sentence
\* starts with to the first closing one; empty when there is none.
ParenContent(sentence) ==
    IF sentence # <<>> /\ sentence[1] = "(" /\ \E j \in 2..Len(sentence) : sentence[j] = ")"
    THEN SubSeq(sentence, 1, CHOOSE j \in 2..Len(sentence) :
                                 /\ sentence[j] = ")"
                                 /\ \A k \in 2..(j - 1) : sentence[k] # ")")
    ELSE <<>>

FlushWhenLong(sentence_buffer, i, n) == Len(sentence_buffer) >= FlushLen

\* Standard flush condition.
Flush(sentence_buffer, i, n) == Len(sentence_buffer) >= FlushLen \/ i = n

\* The loop over the sentences of one response, from sentence i on.
RECURSIVE SplitLoop(_, _, _, _)
SplitLoop(sentences, i, sentence_buffer, split_responses) ==
    IF i > Len(sentences) THEN split_responses
    ELSE LET paren_content == ParenContent(sentences[i])
             rest == SubSeq(sentences[i], Len(paren_content) + 1, Len(sentences[i]))
             found == paren_content # <<>>
             blank == Strip(sentence_buffer) = <<>>
             buffered == IF found /\ ~blank
                         THEN sentence_buffer \o paren_content
                         ELSE sentence_buffer
             previous == IF found /\ blank /\ split_responses # <<>>
                         THEN [split_responses EXCEPT ![Len(split_responses)] = @ \o paren_content]
                         ELSE split_responses
             sentence == IF found /\ blank /\ split_responses = <<>>
                         THEN paren_content \o rest
                         ELSE rest
             filled == buffered \o sentence
             emit == Flush(filled, i, Len(sentences)) /\ Strip(filled) # <<>>
         IN  SplitLoop(sentences, i + 1,
                       IF emit THEN <<>> ELSE filled,
                       IF emit THEN Append(previous, Strip(filled)) ELSE previous)

\* _split_responses: the responses one after the other, each with an
\* empty buffer, all into one list.
RECURSIVE SplitResponses(_, _)
SplitResponses(responses, split_responses) ==
    IF responses = <<>> THEN split_responses
    ELSE SplitResponses(Tail(responses),
             SplitLoop(SentencesWithPunct(ReSplit(Head(responses), 1, <<>>, <<>>), <<>>),
                       1, <<>>, split_responses))

\* A text is split, and the fragments are split once more.
split_responses_twice ==
    /\ PureIdle
    /\ \E text \in SplitInputs :
        LET once == SplitResponses(<<text>>, <<>>)
        IN  /\ pin' = <<text>>
            /\ pout' = <<once, SplitResponses(once, <<>>)>>
    /\ UNCHANGED notPure

NextSplit == split_responses_twice

SpecSplit == Init /\ [][NextSplit]_vars

\* C29 as stated: every text shorter than the flush length, the empty and
\* the blank ones included, gives exactly one fragment.
C29_ShortTextGivesOneFragment ==
    (pin # <<>> /\ Len(pin[1]) < FlushLen) => Len(pout[1]) = 1

\* C29, amended: a text shorter than the flush length gives exactly one
\* fragment, the text without the blanks around it, when it has a
\* character that is not a blank, and no fragment when it is empty or
\* blank.
C29_ShortTextGivesOneFragmentUnlessBlank ==
    (pin # <<>> /\ Len(pin[1]) < FlushLen) =>
        pout[1] = IF Strip(pin[1]) = <<>> THEN <<>> ELSE <<Strip(pin[1])>>

\* A text of five characters with a blank in front, punctuation in the
\* middle and a parenthesis after it came out as one fragment.
C29_Witness ==
    /\ pin # <<>>
    /\ Len(pin[1]) = FlushLen - 1
    /\ pin[1][1] = " "
    /\ \E i \in 2..3 : pin[1][i] \in Punctuation /\ pin[1][i + 1] = "("
    /\ pin[1][Len(pin[1])] = ")"
    /\ Len(pout[1]) = 1

\* C30: splitting the fragments a text was split into gives the same
\* fragment contents in the same order.
C30_SplittingIsIdempotent ==
    pin # <<>> => pout[2] = pout[1]

\* ---------------------------------------------------------------------
\* The summarization trigger of a user turn.
\* ---------------------------------------------------------------------

\* A user one entry below the limit, or at it; the requests come one
\* after the other.
SpecTrigger == (InitWith(RawContextLimit - 1) \/ InitStore) /\ [][NextSeq]_vars

\* The step is the return of check_and_update_context of turn t.
Checked(t) == pc[t] = "check" /\ pc'[t] # "check"

\* The step creates an _update_context task.
TaskStarted == \E s \in Summarizers : pc[s] = "idle" /\ pc'[s] # "idle"

\* t is the user's first request and its entry is in the log.
FirstTurnAppended(t) == started = <<t>> /\ UserEntry(t) \in Logged

Completed(t) ==
    /\ pc[t] = "done"
    /\ pc[WriterOf(t)] = "committed"
    /\ UserEntry(t) \in Logged

\* The rows of the log that are agent entries of turn t, in log order.
RECURSIVE AgentRows(_, _)
AgentRows(rows, t) ==
    IF rows = <<>> THEN <<>>
    ELSE IF Head(rows) \in SeqRange(AgentEntries(t, MaxReply))
         THEN <<Head(rows)>> \o AgentRows(Tail(rows), t)
         ELSE AgentRows(Tail(rows), t)

\* C32: in a turn that completes without failure the agent entries in the
\* durable log are exactly the streamed entries, in the same order, after
\* the turn's user entry, and the two counters have grown by the number of
\* entries of the turn: once every turn that started has completed, both
\* counters equal the number of rows of this new user.
C32_CompletedTurnIsLoggedAndCounted ==
    /\ \A t \in Turns :
          Completed(t) =>
              /\ sent[t] = Len(reply[t])
              /\ AgentRows(log, t) = reply[t]
              /\ \A e \in SeqRange(reply[t]) : Pos(log, UserEntry(t)) < Pos(log, e)
    /\ ((\E t \in Turns : Completed(t)) /\ \A t \in Turns : pc[t] = "idle" \/ Completed(t))
          => /\ dbAll = Len(log)
             /\ dbCtx = Len(log)

\* The same for a turn no other request of the user overlaps.
C32_Alone ==
    \A t \in Turns :
        (Completed(t) /\ started = <<t>>) =>
            /\ sent[t] = Len(reply[t])
            /\ log = <<UserEntry(t)>> \o reply[t]
            /\ dbAll = Len(log)
            /\ dbCtx = Len(log)

\* The request was cancelled before any frame was yielded.
CancelledEarly == stage = "cancelled" /\ frames = <<>>

\* C33: when the request was cancelled before its first frame, the write
\* task was never started and no agent entry of the turn is in the log.
C33_EarlyCancelNeverWrites ==
    CancelledEarly => wtask = "none" /\ persisted = <<>>

\* The part that holds: a cancellation in a model call of step 3, before
\* the entries are built, leaves no write task and no agent entry.
C33_CancelInModelCallNeverWrites ==
    (CancelledEarly /\ items = <<>>) => wtask = "none" /\ persisted = <<>>

\* Cancelled while the first synthesis was pending, and the entries are in
\* the log all the same.
C33_WrittenAfterEarlyCancel ==
    CancelledEarly /\ wtask = "committed" /\ persisted # <<>>

\* --------------------------- the model client: generate_response (retries)

\* max_retries values the configuration may give.
Configs == 0..MaxConfig

\* The exception the request of attempt k raised.
ErrorOf(k) == <<"error", k>>

\* raise ... Exception("Unknown error")
UnknownError == <<"Unknown error">>

Request(k) == [op |-> "request", attempt |-> k]

Sleep(k) == [op |-> "sleep", attempt |-> k]

\* A wait after every failed attempt, the last one too.
WaitAlways(k, n) == TRUE

\* if attempt < self.max_retries - 1
ShouldWait(k, n) == k < n - 1

\* __init__: self.max_retries = self.config.get("max_retries", 3)
LlmConstruct ==
    /\ lpc = "new"
    /\ \E n \in Configs : lmax' = n
    /\ lpc' = "idle"
    /\ UNCHANGED <<lattempt, lerr, levents, lres, lhist>>
    /\ UNCHANGED <<coreVars, notLlm>>

\* generate_response is called: last_exception = None, the loop begins.
LlmCall ==
    /\ lpc \in {"idle", "returned", "raised"}
    /\ Len(lhist) + (IF lpc = "idle" THEN 0 ELSE 1) < MaxLlmCalls
    /\ lhist' = IF lpc = "idle" THEN lhist ELSE Append(lhist, lres)
    /\ lpc' = "loop"
    /\ lattempt' = 0
    /\ lerr' = NoException
    /\ levents' = <<>>
    /\ lres' = <<>>
    /\ UNCHANGED lmax
    /\ UNCHANGED <<coreVars, notLlm>>

\* for attempt in range(self.max_retries): the next request is sent in a
\* thread; after the loop, raise last_exception or Exception("Unknown error").
LlmForAttempt ==
    /\ lpc = "loop"
    /\ IF lattempt < lmax
       THEN /\ lpc' = "request"
            /\ levents' = Append(levents, Request(lattempt))
            /\ UNCHANGED lres
       ELSE /\ lpc' = "raised"
            /\ lres' = IF lerr # NoException THEN lerr ELSE UnknownError
            /\ UNCHANGED levents
    /\ UNCHANGED <<lmax, lattempt, lerr, lhist>>
    /\ UNCHANGED <<coreVars, notLlm>>

\* The request succeeds and its content is extracted: return response.
LlmReturns ==
    /\ lpc = "request"
    /\ lpc' = "returned"
    /\ lres' = <<"response", lattempt>>
    /\ UNCHANGED <<lmax, lattempt, lerr, levents, lhist>>
    /\ UNCHANGED <<coreVars, notLlm>>

\* except Exception as e: last_exception = e, and asyncio.sleep(delay) unless
\* this was the last attempt.
LlmFails ==
    /\ lpc = "request"
    /\ lerr' = ErrorOf(lattempt)
    /\ IF ShouldWait(lattempt, lmax)
       THEN /\ lpc' = "sleep"
            /\ levents' = Append(levents, Sleep(lattempt))
            /\ UNCHANGED lattempt
       ELSE /\ lpc' = "loop"
            /\ lattempt' = lattempt + 1
            /\ UNCHANGED levents
    /\ UNCHANGED <<lmax, lres, lhist>>
    /\ UNCHANGED <<coreVars, notLlm>>

\* asyncio.sleep(delay) is over: the loop goes to the next attempt.
LlmSleepEnds ==
    /\ lpc = "sleep"
    /\ lpc' = "loop"
    /\ lattempt' = lattempt + 1
    /\ UNCHANGED <<lmax, lerr, levents, lres, lhist>>
    /\ UNCHANGED <<coreVars, notLlm>>

NextLlm ==
    \/ LlmConstruct
    \/ LlmCall
    \/ LlmForAttempt
    \/ LlmReturns
    \/ LlmFails
    \/ LlmSleepEnds

\* Calls of generate_response of one client, one after the other. A request
\* in the thread pool returns or raises, and a sleep ends.
SpecLlm ==
    /\ Init
    /\ [][NextLlm]_vars
    /\ WF_vars(LlmForAttempt)
    /\ WF_vars(LlmReturns \/ LlmFails)
    /\ WF_vars(LlmSleepEnds)

\* The requests sent by the call in progress.
Requests == {i \in 1..Len(levents) : levents[i].op = "request"}

\* Requests and sleeps alternate, beginning with the request of attempt 0.
Alternating ==
    \A i \in 1..Len(levents) :
        levents[i] = IF i % 2 = 1 THEN Request((i - 1) \div 2) ELSE Sleep((i - 2) \div 2)

LlmEnded == lpc \in {"returned", "raised"}

\* C34, the part about what a call has done at every moment.
C34_Attempts ==
    /\ Cardinality(Requests) <= lmax
    /\ Alternating
    /\ lpc = "sleep" => Len(levents) < 2 * lmax - 1
    /\ lpc = "returned" =>
          /\ levents[Len(levents)] = Request(lattempt)
          /\ lres = <<"response", lattempt>>
    /\ (lpc = "raised" /\ lmax > 0) =>
          /\ Cardinality(Requests) = lmax
          /\ levents[Len(levents)] = Request(lmax - 1)
          /\ lres = ErrorOf(lmax - 1)

\* C34: a call of generate_response sends at most max_retries requests,
\* returns at the first that succeeds without sending another, sleeps between
\* two requests and not after the last, raises the error of the last request
\* once max_retries requests have failed, and always ends.
C34_RetriesAreBoundedAndEnd ==
    /\ []C34_Attempts
    /\ [][LlmEnded => (levents' = levents \/ LlmCall)]_vars
    /\ (lpc = "loop") ~> LlmEnded

\* The second call of a client with max_retries 3 raised after three
\* requests and two sleeps, the first call having returned at its second.
C34_Witness ==
    /\ lmax = MaxRetries
    /\ lhist = <<<<"response", 1>>>>
    /\ lpc = "raised"
    /\ Len(levents) = 2 * MaxRetries - 1
    /\ lres = ErrorOf(MaxRetries - 1)

\* ------------------------------------------- the optimistic-lock loops

\* The tasks that update user_context under WATCH in this specification.
Lockers == Turns \cup Summarizers

\* p is inside the loop of add_conversations or update_context_summary.
InLockLoop(p) == pc[p] \in {"add_get", "add_exec", "ucs_get", "ucs_exec"}

\* p takes a step of its loop.
LoopStep(p) == InLockLoop(p) /\ pc'[p] # pc[p]

\* p enters the loop: its first attempt is about to begin.
LoopEntered(p) == ~InLockLoop(p) /\ InLockLoop(p)'

\* How often entry e is in the log.
Occurrences(e) == Cardinality({i \in 1..Len(log) : log[i] = e})

\* The third attempt of p is about to fail: the key was written since WATCH.
ThirdAttemptFails(p) == Watching(p) /\ dirty[p] /\ tries[p] = MaxAttempts - 1

\* C35: the loop of add_conversations and of update_context_summary makes at
\* most three attempts and stops after the third WatchError without writing
\* the key; the commit to the log is made once, by the step that enters the
\* loop, and no step of the loop writes the log; an absent key ends the loop
\* and stays absent.
C35_ThreeAttemptsAfterOneCommit ==
    [][\A p \in Lockers :
          /\ tries[p] < MaxAttempts
          /\ (LoopStep(p) /\ ThirdAttemptFails(p)) =>
                /\ ~InLockLoop(p)'
                /\ cache' = cache
          /\ LoopStep(p) => UNCHANGED dbVars
          /\ (LoopEntered(p) /\ p \in Turns) =>
                /\ log' = Append(log, UserEntry(p))
                /\ tries'[p] = 0
          /\ (LoopEntered(p) /\ p \in Summarizers) =>
                /\ dbSummary' = NewSummary(p)
                /\ dbCtx' = NotZipCount
                /\ tries'[p] = 0
          /\ (InLockLoop(p) /\ p \in Turns) => Occurrences(UserEntry(p)) = 1
          /\ (LoopStep(p) /\ ~Watching(p) /\ ~cache.present) =>
                /\ ~InLockLoop(p)'
                /\ cache' = cache
      ]_vars

\* A turn whose entry is in the log once is in its third attempt, which
\* will fail, and the cached context lacks the entry.
C35_Witness ==
    \E t \in Turns :
        /\ pc[t] = "add_exec"
        /\ ThirdAttemptFails(t)
        /\ Occurrences(UserEntry(t)) = 1
        /\ cache.present
        /\ UserEntry(t) \notin Cached

\* A summarizer that committed is in its third attempt, which will fail.
C35_SummaryWitness ==
    \E s \in Summarizers : pc[s] = "ucs_exec" /\ ThirdAttemptFails(s) /\ dbSummary # {}

\* An append found the key absent and returned: the key is still absent
\* and the entry is in the log.
C35_AbsentWitness ==
    \E t \in Turns : pc[t] = "check" /\ ~cache.present /\ Occurrences(UserEntry(t)) = 1

\* ------------------------------------------ what a read of the context writes

\* get_context_from_buffer found no user_context and went to prefill_buffer.
ContextMiss == get_context_from_buffer /\ ~HasJson(fcache[CTX])

\* C36: a get_context_from_buffer that misses the cache leaves the keys
\* user_knowledge, user_nickname and user_recent_memory_update as they were,
\* and no get_context_from_buffer changes the durable rows.
C36_ContextMissWritesContextOnly ==
    [][/\ ContextMiss => \A k \in {KNW, NICK, UPD} : fcache'[k] = fcache[k]
       /\ get_context_from_buffer => UNCHANGED durableVars]_vars

\* The part that holds: no get_context_from_buffer changes the durable rows,
\* and one that hits the cache writes no key.
C36_ReadLeavesRowsAlone ==
    [][get_context_from_buffer =>
          /\ UNCHANGED durableVars
          /\ HasJson(fcache[CTX]) => fcache' = fcache]_vars

\* A read of the context that missed has returned, and the three other keys,
\* absent before, are stored.
C36_OtherKeysStored ==
    /\ fcall.op = "get_context_from_buffer"
    /\ fcall.ok
    /\ \A k \in {KNW, NICK, UPD} : fcache[k].present
    /\ crows # <<>>

\* ------------------------------------------------ two users, one store

\* Calls and expiries one behaviour holds at most.
MaxIsoCalls == 3

\* updates_list[-10:] and .limit(10)
RecentLimit == 10

\* A query that forgets its filter.
AnyUser(r, user_id) == TRUE

\* .filter(Conversation.user_id == user_id), where={"user_id": user_id}
OfUser(r, user_id) == r.user_id = user_id

\* The rows of a table the filter lets through, in insertion order.
RowsOf(table, user_id) == SelectSeq(table, LAMBDA r : OfUser(r, user_id))

\* The rows the filter holds back.
RowsNotOf(table, user_id) == SelectSeq(table, LAMBDA r : ~OfUser(r, user_id))

ContentsOf(rows) == [i \in 1..Len(rows) |-> rows[i].content]

\* What a call leaves: the tables, the keys, and what it returns.
Result(T, K, ret) == [t |-> T, k |-> K, ret |-> ret]

\* redis.setex(key, 3600, value)
Setex(K, kind, user_id, value) == [K EXCEPT ![KeyOf(kind, user_id)] = Stored(value)]

\* context_info of prefill_buffer.
ContextInfo(T, user_id) ==
    [summary |-> T.users[user_id].context_summary,
     conversations |-> LastN(ContentsOf(RowsOf(T.conversations, user_id)),
                             T.users[user_id].context_memory_count)]

\* prefill_buffer(db, redis, user_id): the four keys are stored.
PrefillBuffer(T, K, user_id) ==
    LET K1 == Setex(K, "user_context", user_id, ContextInfo(T, user_id))
        K2 == Setex(K1, "user_knowledge", user_id,
                    ContentsOf(RowsOf(T.knowledge_buffers, user_id)))
        K3 == Setex(K2, "user_nickname", user_id, T.users[user_id].nickname)
        K4 == Setex(K3, "user_recent_memory_update", user_id,
                    LastN(ContentsOf(RowsOf(T.memory_updates, user_id)), RecentLimit))
    IN  Result(T, K4, <<TRUE>>)

\* The cache-aside reads: the stored value, else prefill_buffer and the value
\* it stored.
ReadThrough(T, K, kind, user_id) ==
    IF K[KeyOf(kind, user_id)].present
    THEN Result(T, K, <<K[KeyOf(kind, user_id)].val>>)
    ELSE LET P == PrefillBuffer(T, K, user_id)
         IN  Result(T, P.k, <<P.k[KeyOf(kind, user_id)].val>>)

\* get_user_nickname: if nickname: an empty name counts as absent.
GetUserNickname(T, K, user_id) ==
    LET key == KeyOf("user_nickname", user_id)
    IN  IF K[key].present /\ K[key].val # ""
        THEN Result(T, K, <<K[key].val>>)
        ELSE LET P == PrefillBuffer(T, K, user_id)
             IN  Result(T, P.k, IF P.k[key].val # "" THEN <<P.k[key].val>> ELSE <<>>)

\* get_used_memory_uuid: the stored list, else [].
GetUsedMemoryUuid(T, K, user_id) ==
    LET key == KeyOf("user_used_uuid", user_id)
    IN  Result(T, K, IF K[key].present THEN K[key].val ELSE <<>>)

\* add_conversations with one entry: the row, the counter, and the key if
\* it is present.
AddConversations(T, K, user_id, content) ==
    LET key == KeyOf("user_context", user_id)
        T1 == [T EXCEPT !.conversations = Append(@, [user_id |-> user_id, content |-> content]),
                        !.users[user_id].context_memory_count = @ + 1]
        K1 == IF K[key].present
              THEN Setex(K, "user_context", user_id,
                         [K[key].val EXCEPT !.conversations = Append(@, content)])
              ELSE K
    IN  Result(T1, K1, <<T1.users[user_id].context_memory_count>>)

\* write_knowledge_buffers: the user's rows are deleted, the list is added,
\* the key is overwritten.
WriteKnowledgeBuffers(T, K, user_id, list) ==
    LET added == [i \in 1..Len(list) |-> [user_id |-> user_id, content |-> list[i]]]
        T1 == [T EXCEPT !.knowledge_buffers = RowsNotOf(@, user_id) \o added]
    IN  Result(T1, Setex(K, "user_knowledge", user_id, list), <<>>)

\* update_user_nickname.
UpdateUserNickname(T, K, user_id, name) ==
    Result([T EXCEPT !.users[user_id].nickname = name],
           Setex(K, "user_nickname", user_id, name), <<>>)

\* update_context_summary: the row, and the key if it is present.
UpdateContextSummary(T, K, user_id, summary, count) ==
    LET key == KeyOf("user_context", user_id)
        T1 == [T EXCEPT !.users[user_id].context_summary = summary,
                        !.users[user_id].context_memory_count = count]
        K1 == IF K[key].present
              THEN Setex(K, "user_context", user_id,
                         [summary |-> summary,
                          conversations |-> LastN(K[key].val.conversations, count)])
              ELSE K
    IN  Result(T1, K1, <<>>)

\* write_memory_update: the record, then the key's list with the command
\* appended, cut to the last ten.
WriteMemoryUpdate(T, K, user_id, cmd) ==
    LET key == KeyOf("user_recent_memory_update", user_id)
        before == IF K[key].present THEN K[key].val ELSE <<>>
        T1 == [T EXCEPT !.memory_updates = Append(@, [user_id |-> user_id, content |-> cmd])]
    IN  Result(T1, Setex(K, "user_recent_memory_update", user_id,
                         LastN(Append(before, cmd), RecentLimit)), <<>>)

\* write_used_memory_uuid.
WriteUsedMemoryUuid(T, K, user_id, list) ==
    Result(T, Setex(K, "user_used_uuid", user_id, list), <<>>)

\* ChromaVectorStore.add_documents with metadata {"user_id": user_id}.
AddDocuments(T, K, user_id, content) ==
    Result([T EXCEPT !.documents = Append(@, [user_id |-> user_id, content |-> content])],
           K, <<>>)

\* ChromaVectorStore.search(user_id, query): where={"user_id": user_id}.
StoreSearch(T, K, user_id) ==
    Result(T, K, ContentsOf(RowsOf(T.documents, user_id)))

\* The calls of the facade, with the arguments they are given here.
FacadeCalls ==
    {[op |-> o, arg |-> <<>>] :
        o \in {"prefill_buffer", "get_context_from_buffer", "get_knowledge_from_buffer",
               "get_user_nickname", "get_recent_memory_update_from_buffer",
               "get_used_memory_uuid", "search"}}
    \cup {[op |-> o, arg |-> <<"a">>] :
            o \in {"add_conversations", "update_user_nickname", "write_memory_update",
                   "write_used_memory_uuid", "add_documents"}}
    \cup {[op |-> "write_knowledge_buffers", arg |-> a] : a \in {<<>>, <<"a">>}}
    \cup {[op |-> "update_context_summary", arg |-> <<"s", 0>>]}

\* The call c made for user_id on the tables T and the keys K.
Apply(T, K, user_id, c) ==
    CASE c.op = "prefill_buffer" -> PrefillBuffer(T, K, user_id)
      [] c.op = "get_context_from_buffer" -> ReadThrough(T, K, "user_context", user_id)
      [] c.op = "get_knowledge_from_buffer" -> ReadThrough(T, K, "user_knowledge", user_id)
      [] c.op = "get_recent_memory_update_from_buffer" ->
            ReadThrough(T, K, "user_recent_memory_update", user_id)
      [] c.op = "get_user_nickname" -> GetUserNickname(T, K, user_id)
      [] c.op = "get_used_memory_uuid" -> GetUsedMemoryUuid(T, K, user_id)
      [] c.op = "search" -> StoreSearch(T, K, user_id)
      [] c.op = "add_conversations" -> AddConversations(T, K, user_id, c.arg[1])
      [] c.op = "update_user_nickname" -> UpdateUserNickname(T, K, user_id, c.arg[1])
      [] c.op = "write_memory_update" -> WriteMemoryUpdate(T, K, user_id, c.arg[1])
      [] c.op = "write_used_memory_uuid" -> WriteUsedMemoryUuid(T, K, user_id, c.arg)
      [] c.op = "add_documents" -> AddDocuments(T, K, user_id, c.arg[1])
      [] c.op = "write_knowledge_buffers" -> WriteKnowledgeBuffers(T, K, user_id, c.arg)
      [] c.op = "update_context_summary" ->
            UpdateContextSummary(T, K, user_id, c.arg[1], c.arg[2])

\* User u makes a call: the same call in both worlds.
CallByU ==
    /\ wn < MaxIsoCalls
    /\ \E c \in FacadeCalls :
        LET R == [w \in Worlds |-> Apply(wt[w], wk[w], "u", c)]
        IN  /\ wt' = [w \in Worlds |-> R[w].t]
            /\ wk' = [w \in Worlds |-> R[w].k]
            /\ ures' = [w \in Worlds |-> <<c.op, R[w].ret>>]
    /\ wlast' = "u"
    /\ wn' = wn + 1
    /\ UNCHANGED notIso

\* User v makes a call in world 1; in world 2 v does nothing.
CallByV ==
    /\ wn < MaxIsoCalls
    /\ \E c \in FacadeCalls :
        LET R == Apply(wt[1], wk[1], "v", c)
        IN  /\ wt' = [wt EXCEPT ![1] = R.t]
            /\ wk' = [wk EXCEPT ![1] = R.k]
    /\ wlast' = "v"
    /\ wn' = wn + 1
    /\ UNCHANGED ures
    /\ UNCHANGED notIso

\* The TTL of a key of u elapses, in both worlds.
KeyOfUExpires ==
    /\ wn < MaxIsoCalls
    /\ \E kind \in Kinds :
        /\ wk[1][KeyOf(kind, "u")].present
        /\ wk' = [w \in Worlds |-> [wk[w] EXCEPT ![KeyOf(kind, "u")] = Absent]]
    /\ wn' = wn + 1
    /\ UNCHANGED <<wt, ures, wlast>>
    /\ UNCHANGED notIso

NextIso ==
    \/ CallByU
    \/ CallByV
    \/ KeyOfUExpires

\* Two users on one store, followed in two worlds that differ in v only.
SpecIso == Init /\ [][NextIso]_vars

\* What belongs to user_id in the tables T and the keys K: the rows that
\* carry the user's id and the five keys named after it.
Belongings(T, K, user_id) ==
    [row |-> T.users[user_id],
     conversations |-> SelectSeq(T.conversations, LAMBDA r : r.user_id = user_id),
     knowledge_buffers |-> SelectSeq(T.knowledge_buffers, LAMBDA r : r.user_id = user_id),
     memory_updates |-> SelectSeq(T.memory_updates, LAMBDA r : r.user_id = user_id),
     documents |-> SelectSeq(T.documents, LAMBDA r : r.user_id = user_id),
     keys |-> [kind \in Kinds |-> K[<<kind, user_id>>]]]

\* C37: a call made for one user leaves what belongs to the other user
\* unchanged, in the tables and in the keys; and what belongs to u and what
\* the calls of u return are the same in two worlds that differ only in what
\* v has and does.
C37_UsersAreIsolated ==
    [][/\ (CallByU \/ CallByV) =>
             \A w \in Worlds, other \in UserIds \ {wlast'} :
                 Belongings(wt'[w], wk'[w], other) = Belongings(wt[w], wk[w], other)
       /\ Belongings(wt'[1], wk'[1], "u") = Belongings(wt'[2], wk'[2], "u")
       /\ ures'[1] = ures'[2]
      ]_vars

\* User u has appended an entry and read a context that holds it, the same
\* in both worlds, while user v has rows in both worlds and not the same.
C37_Witness ==
    /\ ures[1] = <<"get_context_from_buffer", <<[summary |-> "", conversations |-> <<"a">>]>>>>
    /\ ures[2] = ures[1]
    /\ Len(wt[1].conversations) = 2
    /\ Len(wt[2].conversations) = 2
    /\ wt[1].users["v"] # wt[2].users["v"]

\* ------------------------------------ the recent memory updates of a user

\* The commands recorded for user_id in the tables T, in recording order.
RecordedFor(T, user_id) ==
    LET mine == SelectSeq(T.memory_updates, LAMBDA r : r.user_id = user_id)
    IN  [i \in 1..Len(mine) |-> mine[i].content]

\* C38: whenever user_recent_memory_update of a user is present, its list
\* has at most ten commands and is the last (up to) ten commands recorded
\* for the user in memory_update_records, in recording order.
C38_RecentKeyMirrorsTheLog ==
    \A w \in Worlds, user_id \in UserIds :
        LET key == wk[w][<<"user_recent_memory_update", user_id>>]
        IN  key.present =>
                /\ Len(key.val) <= RecentLimit
                /\ key.val = LastN(RecordedFor(wt[w], user_id), RecentLimit)

\* The part that holds: the list is never longer than ten and holds only
\* commands recorded for the user.
C38_RecentKeyIsBounded ==
    \A w \in Worlds, user_id \in UserIds :
        LET key == wk[w][<<"user_recent_memory_update", user_id>>]
        IN  key.present =>
                /\ Len(key.val) <= RecentLimit
                /\ SeqRange(key.val) \subseteq SeqRange(RecordedFor(wt[w], user_id))

\* Two commands are recorded for u and the key holds the second only: the
\* key had expired when the second was recorded.
C38_KeyLacksACommand ==
    /\ Len(RecordedFor(wt[1], "u")) = 2
    /\ wk[1][<<"user_recent_memory_update", "u">>] = Stored(<<"a">>)

\* ------------------------------------------ the summarizer, call by call

\* What the model answers to the summary prompt, or that the call raised.
LlmAnswers == {"s1", "s2", "raises"}

\* The except clause was taken: the error is logged, None is returned.
LoggedError == <<"error">>

\* update_context_summary with the ways it may end: without an exception,
\* with one raised before or by db.commit() (rollback), or with one raised
\* by Redis after the commit (the rollback undoes nothing).
UpdateContextSummaryEnds(T, K, user_id, summary, count, out) ==
    LET R == UpdateContextSummary(T, K, user_id, summary, count)
    IN  CASE out = "none" -> R
          [] out = "commit" -> Result(T, K, LoggedError)
          [] out = "redis" -> Result(R.t, K, LoggedError)

\* _update_context: the context is read through the cache, the model is
\* asked for the new summary, update_context_summary stores it with
\* not_zip_conversation_count; an exception of the model ends the task.
UpdateContext(T, K, user_id, answer, out) ==
    LET C == ReadThrough(T, K, "user_context", user_id)
    IN  IF answer = "raises"
        THEN Result(C.t, C.k, LoggedError)
        ELSE UpdateContextSummaryEnds(C.t, C.k, user_id, answer, NotZipCount, out)

\* The summarization task of user u runs, the same in both worlds.
UpdateContextTask ==
    /\ wn < MaxIsoCalls
    /\ \E answer \in LlmAnswers, out \in Outcomes :
        LET R == [w \in Worlds |-> UpdateContext(wt[w], wk[w], "u", answer, out)]
        IN  /\ wt' = [w \in Worlds |-> R[w].t]
            /\ wk' = [w \in Worlds |-> R[w].k]
            /\ ures' = [w \in Worlds |-> <<"_update_context", R[w].ret>>]
    /\ wlast' = "u"
    /\ wn' = wn + 1
    /\ UNCHANGED notIso

\* The calls that build and load the context of u.
ContextCalls ==
    {c \in FacadeCalls : c.op \in {"add_conversations", "prefill_buffer", "get_context_from_buffer"}}

ContextCallByU ==
    /\ wn < MaxIsoCalls
    /\ \E c \in ContextCalls :
        LET R == [w \in Worlds |-> Apply(wt[w], wk[w], "u", c)]
        IN  /\ wt' = [w \in Worlds |-> R[w].t]
            /\ wk' = [w \in Worlds |-> R[w].k]
            /\ ures' = [w \in Worlds |-> <<c.op, R[w].ret>>]
    /\ wlast' = "u"
    /\ wn' = wn + 1
    /\ UNCHANGED notIso

NextSummaryCalls ==
    \/ ContextCallByU
    \/ UpdateContextTask
    \/ KeyOfUExpires

\* The appends, reads and summarizations of one user, one after the other.
SpecSummaryCalls == Init /\ [][NextSummaryCalls]_vars

\* The row of u in users: summary and working-window count (and nickname).
RowOfU == wt[1].users["u"]

\* user_context of u.
ContextKeyOfU == wk[1][<<"user_context", "u">>]

\* The summarization task of this step ended in an except clause.
SummarizationFailed == UpdateContextTask /\ ures'[1] = <<"_update_context", LoggedError>>

\* C39: a summarization whose model call or whose update_context_summary
\* fails leaves the summary and the count of the row and the cached context
\* as they were; and summary and count of the row change in the same step.
C39_FailedSummarizationChangesNothing ==
    [][/\ SummarizationFailed => (RowOfU' = RowOfU /\ ContextKeyOfU' = ContextKeyOfU)
       /\ RowOfU'.context_summary # RowOfU.context_summary
             => RowOfU'.context_memory_count = NotZipCount
      ]_vars

\* The part that holds: the summary changes together with the count, in one
\* step; and a summarization that found the key cached and ended in an
\* except clause has left the key as it was.
C39_SummaryChangesWithCount ==
    [][/\ RowOfU'.context_summary # RowOfU.context_summary
             => (UpdateContextTask /\ RowOfU'.context_memory_count = NotZipCount)
       /\ (SummarizationFailed /\ ContextKeyOfU.present) => ContextKeyOfU' = ContextKeyOfU
      ]_vars

\* A summarization has failed, and the row holds its summary while the
\* cached context holds the summary and the entries from before.
C39_RowAheadOfCache ==
    /\ ures[1] = <<"_update_context", LoggedError>>
    /\ RowOfU.context_summary \in {"s1", "s2"}
    /\ ContextKeyOfU = Stored([summary |-> "", conversations |-> <<"a", "a">>])

\* --------------------------------------------- a v_update without an id

\* The v_update of this step came without "uuid", or with "": the short id
\* is kwargs.get("uuid", ""), the empty string.
UpdateWithoutId == UpdateStep /\ lastcmd'.prefix = <<>>

\* C40: a v_update without a uuid argument, or with an empty one, changes
\* no vector record and records no MemoryUpdateCommand.
C40_UpdateWithoutIdChangesNothing ==
    [][UpdateWithoutId => (vlog' = vlog /\ staged' = staged)]_vars

\* The part that holds: without any candidate such a v_update changes
\* nothing.
C40_NothingWithoutCandidates ==
    [][(UpdateWithoutId /\ candidates = <<>>) => (vlog' = vlog /\ staged' = staged)]_vars

\* A v_update without an id has changed the first candidate and recorded
\* the change.
C40_FirstCandidateUpdated ==
    /\ candidates # <<>>
    /\ lastcmd = [kind |-> "v_update", prefix |-> <<>>, target |-> candidates[1]]
    /\ vlog # <<>>
    /\ vlog[Len(vlog)] = UpdateRecord("v_update", candidates[1])
    /\ staged # <<>>
    /\ staged[Len(staged)] = UpdateRecord("v_update", candidates[1])

====
